---- MODULE Spec2Model ----
(***************************************************************************)
(* A model of the lox tree-walking interpreter (eugecm/lox): the static    *)
(* Resolver (resolver.rs), the Environment chain (environment.rs), the     *)
(* Function / Class / ClassInstance runtime (callable.rs, class.rs) and    *)
(* the Interpreter (interpreter.rs).                                       *)
(*                                                                         *)
(* A behaviour is one run of main.rs::run_file on one program: the         *)
(* Resolver walks the top-level declarations one by one, hands the         *)
(* Interpreter back, and the Interpreter executes the declarations one by  *)
(* one.  Shared, reference-counted objects (Rc<RefCell<..>>) live in       *)
(* arenas: `envs` for Environment records, `fields` for instance field     *)
(* tables; a reference is an index into the arena.                         *)
(***************************************************************************)
EXTENDS Integers, Sequences, FiniteSets, TLC

(***************************************************************************)
(* Bounds of the model.                                                    *)
(***************************************************************************)
\* How many fragments of the pool a program is made of (at most).
MaxFragments == 1
\* Depth of nested calls after which the host stack is taken to overflow.
MaxCallDepth == 3
\* Iterations of one `while` statement after which the run is cut off.
MaxLoop == 6
\* The number literals of the generated operator programs are 0 .. MaxOperand,
\* and their negations.
MaxOperand == 2
\* The number of scopes of the environments the Environment operations are
\* applied to.
MaxScopes == 3

(***************************************************************************)
(* types.rs: Object, the tagged value.  The payload field is named after   *)
(* the tag, so two values of different tags never compare payloads.        *)
(***************************************************************************)
String(s) == [t |-> "String", s |-> s]
\* Number(f64): the exact rational n/d, d > 0, in lowest terms; d = 0 stands for
\* the f64 specials (n = 1: inf, n = -1: -inf, n = 0: NaN).  There is no signed zero.
Number(n) == [t |-> "Number", n |-> n, d |-> 1]
Boolean(b) == [t |-> "Boolean", b |-> b]
Null == [t |-> "Null"]
\* Object::Callable(Rc<Function>): callable.rs Function { decl, closure, is_initializer }
Function(decl, closure, is_initializer) ==
  [t |-> "Callable", builtin |-> FALSE, decl |-> decl, closure |-> closure,
   is_initializer |-> is_initializer]
\* Object::Callable(Rc<ClockFn>): builtins.rs
ClockFn == [t |-> "Callable", builtin |-> TRUE]
\* Object::Class(Rc<Class>): class.rs Class { name, methods, superclass }
\* superclass is an Option: <<>> or <<class>>.
Class(name, superclass, methods) ==
  [t |-> "Class", name |-> name, superclass |-> superclass, methods |-> methods]
\* Object::ClassInstance: class.rs ClassInstance { class, fields }; `fields` is a
\* shared Rc<RefCell<HashMap>>: an index into the arena of field tables.
ClassInstance(class, fields_ref) ==
  [t |-> "ClassInstance", class |-> class, fields |-> fields_ref]

(***************************************************************************)
(* syntax.rs: the AST.  Every Expr carries the id the parser gave it.      *)
(***************************************************************************)
Literal(id, value) == [id |-> id, kind |-> "Literal", value |-> value]
Var(id, name) == [id |-> id, kind |-> "Var", name |-> name]
Assign(id, name, expr) == [id |-> id, kind |-> "Assign", name |-> name, expr |-> expr]
Binary(id, left, op, right) ==
  [id |-> id, kind |-> "Binary", left |-> left, op |-> op, right |-> right]
Logical(id, left, op, right) ==
  [id |-> id, kind |-> "Logical", left |-> left, op |-> op, right |-> right]
Unary(id, op, right) == [id |-> id, kind |-> "Unary", op |-> op, right |-> right]
Grouping(id, expr) == [id |-> id, kind |-> "Grouping", expr |-> expr]
Call(id, callee, args) == [id |-> id, kind |-> "Call", callee |-> callee, args |-> args]
Get(id, name, object) == [id |-> id, kind |-> "Get", name |-> name, object |-> object]
Set(id, object, name, value) ==
  [id |-> id, kind |-> "Set", object |-> object, name |-> name, value |-> value]
This(id) == [id |-> id, kind |-> "This", token |-> "this"]
Super(id, method) == [id |-> id, kind |-> "Super", token |-> "super", method |-> method]

ExprStmt(expr) == [stmt |-> "Expr", expr |-> expr]
\* else_branch is an Option: <<>> or <<stmt>>.
If(condition, then_branch, else_branch) ==
  [stmt |-> "If", condition |-> condition, then_branch |-> then_branch,
   else_branch |-> else_branch]
PrintStmt(expr) == [stmt |-> "Print", expr |-> expr]
Return(value) == [stmt |-> "Return", value |-> value]
While(condition, body) == [stmt |-> "While", condition |-> condition, body |-> body]
Block(decls) == [stmt |-> "Block", decls |-> decls]
FunctionStmt(identifier, parameters, body) ==
  [identifier |-> identifier, parameters |-> parameters, body |-> body]
FunctionDecl(function_stmt) == [stmt |-> "FunctionDecl", function_stmt |-> function_stmt]
\* superclass is an Option: <<>> or <<Var expr>>.
ClassDecl(name, methods, superclass) ==
  [stmt |-> "ClassDecl", name |-> name, methods |-> methods, superclass |-> superclass]

VarDecl(identifier, expression) ==
  [decl |-> "Var", identifier |-> identifier, expression |-> expression]
Statement(stmt) == [decl |-> "Statement", stmt |-> stmt]

(***************************************************************************)
(* Small helpers over HashMap-like functions and Vec-like sequences.       *)
(***************************************************************************)
EmptyMap == [k \in {} |-> Null]
Insert(map, k, v) == (k :> v) @@ map
Last(s) == s[Len(s)]
\* Bind([x \in {e} |-> body]) is `body` with x standing for the value of e (a
\* `let x = e;` whose right-hand side is evaluated once).
Bind(F) == F[CHOOSE x \in DOMAIN F : TRUE]
Front(s) == SubSeq(s, 1, Len(s) - 1)

(***************************************************************************)
(* resolver.rs: the Resolver.  Its state is the record                     *)
(*   [scopes, current_function, current_class, locals, err, rtrace, rlog]  *)
(* scopes: Vec<HashMap<Identifier, bool>>; locals: the Interpreter's       *)
(* HashMap<u64, usize>, which Resolver::resolve_local fills through        *)
(* Interpreter::resolve; err: the message of the panic that aborted the    *)
(* pass ("" while it runs); rtrace: a history of what the pass did.        *)
(***************************************************************************)
RPanic(rs, msg) == IF rs.err # "" THEN rs ELSE [rs EXCEPT !.err = msg]

\* History: one record per call of Resolver::declare.
LogDeclare(pre, name, post) ==
  [post EXCEPT !.rtrace = Append(@,
     [ev |-> "declare", name |-> name, depth |-> Len(pre.scopes),
      dup |-> Len(pre.scopes) > 0 /\ name \in DOMAIN Last(pre.scopes),
      fatal |-> post.err # ""]),
               !.rlog = Append(@,
     [ev |-> "declare", name |-> name, before |-> pre.scopes, after |-> post.scopes,
      err |-> post.err])]
\* History: one record per call of Resolver::define, with the scope stack
\* before and after it.
LogDefine(pre, name, post) ==
  [post EXCEPT !.rlog = Append(@,
     [ev |-> "define", name |-> name, before |-> pre.scopes, after |-> post.scopes])]
\* History: one record per variable read the pass looks at, with the scope
\* stack it stands in and the message of its panic ("" when it passed).
LogVarCheck(rs, expr, msg) ==
  [rs EXCEPT !.rlog = Append(@,
     [ev |-> "read", id |-> expr.id, name |-> expr.name, scopes |-> rs.scopes,
      err |-> msg])]

begin_scope(rs) ==
  IF rs.err # "" THEN rs ELSE [rs EXCEPT !.scopes = Append(@, EmptyMap)]

\* end_scope that leaves the innermost scope on the stack.
end_scope_kept(rs) ==
  IF rs.err # "" THEN rs
  ELSE IF Len(rs.scopes) = 0 THEN RPanic(rs, "stack is empty!")
  ELSE rs

end_scope(rs) ==
  IF rs.err # "" THEN rs
  ELSE IF Len(rs.scopes) = 0 THEN RPanic(rs, "stack is empty!")
  ELSE [rs EXCEPT !.scopes = Front(@)]

\* scopes.last_mut().unwrap().insert(name, true): the synthetic `super` / `this`.
insert_last(rs, name, defined) ==
  IF rs.err # "" THEN rs
  ELSE [rs EXCEPT !.scopes[Len(rs.scopes)] = Insert(@, name, defined)]

\* declare without the look at the innermost scope: a second declaration of a
\* name overwrites the first.
declare_unchecked(rs, name) ==
  IF rs.err # "" THEN rs
  ELSE LogDeclare(rs, name,
         IF Len(rs.scopes) = 0 THEN rs ELSE insert_last(rs, name, FALSE))

declare(rs, name) ==
  IF rs.err # "" THEN rs
  ELSE LogDeclare(rs, name,
         IF Len(rs.scopes) = 0 THEN rs
         ELSE IF name \in DOMAIN Last(rs.scopes)
              THEN RPanic(rs, "Already a variable with this name in this scope.")
              ELSE insert_last(rs, name, FALSE))

define(rs, name) ==
  IF rs.err # "" THEN rs
  ELSE LogDefine(rs, name,
         IF Len(rs.scopes) = 0 THEN rs ELSE insert_last(rs, name, TRUE))

\* resolve that records one scope more than it was given.
interpreter_resolve_one_further(rs, id, depth) ==
  [rs EXCEPT !.locals = Insert(@, id, depth + 1)]

\* Interpreter::resolve, interpreter.rs
interpreter_resolve(rs, id, depth) ==
  [rs EXCEPT !.locals = Insert(@, id, depth)]

\* History: one record per call of Resolver::resolve_local: the names of the
\* scope stack, and the entry of the expression in locals before and after.
RLog(rs, e) == [rs EXCEPT !.rlog = Append(@, e)]
Entry(map, id) == IF id \in DOMAIN map THEN <<map[id]>> ELSE <<>>
LogLocal(pre, expr, name, post) ==
  RLog(post, [ev |-> "local", id |-> expr.id, kind |-> expr.kind, name |-> name,
              scopes |-> [i \in 1 .. Len(pre.scopes) |-> DOMAIN pre.scopes[i]],
              before |-> Entry(pre.locals, expr.id),
              after |-> Entry(post.locals, expr.id)])

\* History: one record per declaration or statement the pass accepted: the
\* depth of the scope stack and the two kinds before and after it.
Balance(rs) ==
  [depth |-> Len(rs.scopes), function |-> rs.current_function,
   class |-> rs.current_class]
LogStmt(pre, kind, post) ==
  IF post.err # "" THEN post
  ELSE [post EXCEPT !.rlog = Append(@,
          [ev |-> "stmt", kind |-> kind, before |-> Balance(pre),
           after |-> Balance(post)])]

\* History: one record per context check of the pass (a return statement, told
\* by the id of its value, a this, a super): the current function and class
\* kinds the check looked at and the message of its panic ("" when it passed).
LogCheck(rs, what, id, msg) ==
  IF rs.err # "" THEN rs ELSE
  RLog(rs, [ev |-> "check", what |-> what, id |-> id,
            function |-> rs.current_function, class |-> rs.current_class,
            err |-> msg])
\* History: one record per class declaration with a superclass.
LogInherit(rs, name, superclass, msg) ==
  IF rs.err # "" THEN rs ELSE
  RLog(rs, [ev |-> "inherit", name |-> name, superclass |-> superclass, err |-> msg])

\* The loop of resolve_local: i runs over the scopes from the innermost (the last).
RECURSIVE resolve_local_scan(_, _, _, _)
\* The scan from the outermost scope inwards: the outermost scope holding the
\* name wins.
resolve_local_scan_outermost(rs, id, name, i) ==
  LET S == {k \in 1 .. i : name \in DOMAIN rs.scopes[k]}
  IN IF S = {} THEN rs
     ELSE interpreter_resolve(rs, id, Len(rs.scopes)
                                        - (CHOOSE k \in S : \A x \in S : k <= x))

resolve_local_scan(rs, id, name, i) ==
  IF i = 0 THEN rs
  ELSE IF name \in DOMAIN rs.scopes[i]
       THEN interpreter_resolve(rs, id, Len(rs.scopes) - i)
       ELSE resolve_local_scan(rs, id, name, i - 1)

resolve_local(rs, expr, name) ==
  IF rs.err # "" THEN rs
  ELSE LogLocal(rs, expr, name, resolve_local_scan(rs, expr.id, name, Len(rs.scopes)))

RECURSIVE resolve(_, _), resolve_stmt(_, _), resolve_expr(_, _), resolve_exprs(_, _)
RECURSIVE resolve_function(_, _, _), resolve_methods(_, _), declare_params(_, _)

\* for param in &function_stmt.parameters { declare; define }
declare_params(rs, parameters) ==
  IF Len(parameters) = 0 \/ rs.err # "" THEN rs
  ELSE declare_params(define(declare(rs, Head(parameters)), Head(parameters)),
                      Tail(parameters))

\* resolve_function that leaves the kind of the function it resolved as the
\* current one.
resolve_function_kind_kept(rs, function_stmt, kind) ==
  IF rs.err # "" THEN rs
  ELSE end_scope(resolve(declare_params(begin_scope([rs EXCEPT !.current_function = kind]),
                                        function_stmt.parameters),
                         function_stmt.body))

resolve_function(rs, function_stmt, kind) ==
  IF rs.err # "" THEN rs
  ELSE LET enclosing_function == rs.current_function
           r1 == begin_scope([rs EXCEPT !.current_function = kind])
           r2 == declare_params(r1, function_stmt.parameters)
           r3 == end_scope(resolve(r2, function_stmt.body))
       IN IF r3.err # "" THEN r3
          ELSE [r3 EXCEPT !.current_function = enclosing_function]

\* for method in &class_decl.methods { resolve_function(method, declaration) }
resolve_methods(rs, methods) ==
  IF Len(methods) = 0 \/ rs.err # "" THEN rs
  ELSE LET method == Head(methods)
           declaration == IF method.identifier = "init" THEN "Initializer" ELSE "Method"
       IN resolve_methods(resolve_function(rs, method, declaration), Tail(methods))

\* for arg in args { resolve_expr(arg) }
resolve_exprs(rs, exprs) ==
  IF Len(exprs) = 0 \/ rs.err # "" THEN rs
  ELSE resolve_exprs(resolve_expr(rs, Head(exprs)), Tail(exprs))

resolve_expr(rs, expr) ==
  IF rs.err # "" THEN rs
  ELSE CASE expr.kind = "Assign" ->
              resolve_local(resolve_expr(rs, expr.expr), expr, expr.name)
         [] expr.kind = "Binary" ->
              resolve_expr(resolve_expr(rs, expr.left), expr.right)
         [] expr.kind = "Grouping" -> resolve_expr(rs, expr.expr)
         [] expr.kind = "Literal" -> rs
         [] expr.kind = "Logical" ->
              resolve_expr(resolve_expr(rs, expr.left), expr.right)
         [] expr.kind = "Unary" -> resolve_expr(rs, expr.right)
         [] expr.kind = "Call" ->
              resolve_exprs(resolve_expr(rs, expr.callee), expr.args)
         [] expr.kind = "Var" ->
              IF /\ Len(rs.scopes) > 0
                 /\ expr.name \in DOMAIN Last(rs.scopes)
                 /\ Last(rs.scopes)[expr.name] = FALSE
              THEN RPanic(LogVarCheck(rs, expr, "can't read local var in its own initializer"),
                          "can't read local var in its own initializer")
              ELSE resolve_local(LogVarCheck(rs, expr, ""), expr, expr.name)
         [] expr.kind = "Get" -> resolve_expr(rs, expr.object)
         [] expr.kind = "Set" ->
              resolve_expr(resolve_expr(rs, expr.value), expr.object)
         [] expr.kind = "This" ->
              IF rs.current_class = "None"
              THEN RPanic(LogCheck(rs, "this", expr.id,
                                   "can't use 'this' keyword outside of a class"),
                          "can't use 'this' keyword outside of a class")
              ELSE resolve_local(LogCheck(rs, "this", expr.id, ""), expr, expr.token)
         [] expr.kind = "Super" ->
              IF rs.current_class = "None"
              THEN RPanic(LogCheck(rs, "super", expr.id,
                                   "can't use 'super' outside of class"),
                          "can't use 'super' outside of class")
              ELSE IF rs.current_class # "SubClass"
              THEN RPanic(LogCheck(rs, "super", expr.id,
                                   "can't use 'super' in a class with no superclass"),
                          "can't use 'super' in a class with no superclass")
              ELSE resolve_local(LogCheck(rs, "super", expr.id, ""), expr, expr.token)

resolve_stmt(rs, stmt) ==
  IF rs.err # "" THEN rs
  ELSE LogStmt(rs, stmt.stmt,
       CASE stmt.stmt = "Expr" -> resolve_expr(rs, stmt.expr)
         [] stmt.stmt = "FunctionDecl" ->
              resolve_function(
                define(declare(rs, stmt.function_stmt.identifier),
                       stmt.function_stmt.identifier),
                stmt.function_stmt, "Function")
         [] stmt.stmt = "If" ->
              LET r1 == resolve_stmt(resolve_expr(rs, stmt.condition), stmt.then_branch)
              IN IF Len(stmt.else_branch) > 0
                 THEN resolve_stmt(r1, stmt.else_branch[1])
                 ELSE r1
         [] stmt.stmt = "Print" -> resolve_expr(rs, stmt.expr)
         [] stmt.stmt = "Return" ->
              IF rs.current_function = "None"
              THEN RPanic(LogCheck(rs, "return", stmt.value.id,
                                   "can't return from a top-level function"),
                          "can't return from a top-level function")
              ELSE IF rs.current_function = "Initializer"
              THEN RPanic(LogCheck(rs, "return", stmt.value.id,
                                   "can't return from an initializer"),
                          "can't return from an initializer")
              ELSE resolve_expr(LogCheck(rs, "return", stmt.value.id, ""), stmt.value)
         [] stmt.stmt = "While" ->
              resolve_stmt(resolve_expr(rs, stmt.condition), stmt.body)
         [] stmt.stmt = "Block" ->
              end_scope(resolve(begin_scope(rs), stmt.decls))
         [] stmt.stmt = "ClassDecl" ->
              LET enclosing_class == rs.current_class
                  has_super == Len(stmt.superclass) > 0
                  r1 == define(declare([rs EXCEPT !.current_class = "Class"], stmt.name),
                               stmt.name)
                  r2 == IF ~has_super THEN r1
                        ELSE IF stmt.superclass[1].kind # "Var"
                        THEN RPanic(r1, "bug: superclass is not a var??")
                        ELSE IF stmt.superclass[1].name = stmt.name
                        THEN RPanic(LogInherit(r1, stmt.name, stmt.superclass[1].name,
                                               "a class can't inherit from itself"),
                                    "a class can't inherit from itself")
                        ELSE IF r1.err # "" THEN r1
                        ELSE resolve_expr(
                               [LogInherit(r1, stmt.name, stmt.superclass[1].name, "")
                                  EXCEPT !.current_class = "SubClass"],
                               stmt.superclass[1])
                  r3 == IF has_super
                        THEN insert_last(begin_scope(r2), "super", TRUE)
                        ELSE r2
                  r4 == insert_last(begin_scope(r3), "this", TRUE)
                  r5 == end_scope(resolve_methods(r4, stmt.methods))
                  r6 == IF has_super THEN end_scope(r5) ELSE r5
              IN IF r6.err # "" THEN r6
                 ELSE [r6 EXCEPT !.current_class = enclosing_class])

\* resolve that defines a variable before it resolves its initializer.
resolve_defined_at_once(rs, stmts) ==
  IF Len(stmts) = 0 \/ rs.err # "" THEN rs
  ELSE LET stmt == Head(stmts)
           r1 == IF stmt.decl = "Var"
                 THEN resolve_expr(define(declare(rs, stmt.identifier), stmt.identifier),
                                   stmt.expression)
                 ELSE resolve_stmt(rs, stmt.stmt)
       IN resolve(r1, Tail(stmts))

resolve(rs, stmts) ==
  IF Len(stmts) = 0 \/ rs.err # "" THEN rs
  ELSE LET stmt == Head(stmts)
           r1 == IF stmt.decl = "Var"
                 THEN LogStmt(rs, "Var",
                        define(resolve_expr(declare(rs, stmt.identifier),
                                            stmt.expression),
                               stmt.identifier))
                 ELSE resolve_stmt(rs, stmt.stmt)
       IN resolve(r1, Tail(stmts))

(***************************************************************************)
(* f64 arithmetic on Number payloads (interpreter.rs eval_binary/unary).   *)
(***************************************************************************)
Abs(x) == IF x < 0 THEN -x ELSE x
Sign(x) == IF x < 0 THEN -1 ELSE IF x > 0 THEN 1 ELSE 0
RECURSIVE GCD(_, _)
GCD(a, b) == IF b = 0 THEN a ELSE GCD(b, a % b)
Rat(n, d) ==
  IF d = 0 THEN [t |-> "Number", n |-> Sign(n), d |-> 0]
  ELSE LET g == GCD(Abs(n), Abs(d))
       IN [t |-> "Number", n |-> (Sign(d) * n) \div g, d |-> Abs(d) \div g]
num_neg(a) == [a EXCEPT !.n = -a.n]
num_add(a, b) ==
  IF a.d = 0 /\ b.d = 0 THEN (IF a.n = b.n THEN a ELSE Rat(0, 0))
  ELSE IF a.d = 0 THEN a
  ELSE IF b.d = 0 THEN b
  ELSE Rat(a.n * b.d + b.n * a.d, a.d * b.d)
\* Subtraction with the operands the other way round.
num_sub_swapped(a, b) == num_add(b, num_neg(a))
num_sub(a, b) == num_add(a, num_neg(b))
num_mul(a, b) ==
  IF a.d = 0 \/ b.d = 0 THEN Rat(Sign(a.n) * Sign(b.n), 0)
  ELSE Rat(a.n * b.n, a.d * b.d)
num_div(a, b) ==
  IF a.d = 0 /\ b.d = 0 THEN Rat(0, 0)
  ELSE IF a.d = 0 THEN Rat(a.n * (IF b.n < 0 THEN -1 ELSE 1), 0)
  ELSE IF b.d = 0 THEN (IF b.n = 0 THEN b ELSE Rat(0, 1))
  ELSE IF b.n = 0 THEN Rat(Sign(a.n), 0)
  ELSE Rat(a.n * b.d, a.d * b.n)
num_is_nan(a) == a.d = 0 /\ a.n = 0
num_lt(a, b) ==
  IF num_is_nan(a) \/ num_is_nan(b) THEN FALSE
  ELSE IF a.d = 0 /\ b.d = 0 THEN a.n < b.n
  ELSE IF a.d = 0 THEN a.n < 0
  ELSE IF b.d = 0 THEN b.n > 0
  ELSE a.n * b.d < b.n * a.d
num_eq(a, b) == ~num_is_nan(a) /\ ~num_is_nan(b) /\ a.n = b.n /\ a.d = b.d
num_le(a, b) == num_lt(a, b) \/ num_eq(a, b)

(***************************************************************************)
(* The Interpreter's state, threaded through evaluation, is the record     *)
(*   [envs, fields, environment, locals, output, err,                      *)
(*    depth, now, tick, act, nact, trace]                                  *)
(* envs: the arena of Environment { parent, values } (parent 0: None);     *)
(* fields: the arena of instance field tables; environment: the current    *)
(* EnvRef; output: the lines printed; err: the panic that ended the run    *)
(* ("" while it runs); depth: nesting of calls on the host stack; now and  *)
(* tick: the system clock and how far it moves per reading.                *)
(* act, nact and trace are history: the activation (call) now running,     *)
(* how many there were, and the events of the run in order.                *)
(***************************************************************************)
globals == 1

Panic(st, msg) == IF st.err # "" THEN st ELSE [st EXCEPT !.err = msg]
Log(st, ev) == [st EXCEPT !.trace = Append(@, ev)]
\* History of a nested execution that came back: the scope the interpreter was in
\* before it and the one it is in now, and how it ended.
LogFrame(st, kind, before, flow) ==
  IF st.err # "" THEN st
  ELSE [st EXCEPT !.frames = Append(@, [kind |-> kind, before |-> before,
                                        after |-> st.environment, flow |-> flow])]
\* What an evaluation yields: the state after it and the value.
R(st, v) == [st |-> st, v |-> v]
\* Flow<Object> = Result<Object, Object>: Ok is normal completion, Err the return signal.
FlowOk(st, v) == [st |-> st, flow |-> "Ok", v |-> v]
FlowErr(st, v) == [st |-> st, flow |-> "Err", v |-> v]

(***************************************************************************)
(* environment.rs                                                          *)
(***************************************************************************)
\* Environment::new_ref(parent): the new EnvRef is NewRef(st) of the state before.
NewRef(st) == Len(st.envs) + 1
new_ref(st, parent) ==
  [st EXCEPT !.envs = Append(@, [parent |-> parent, values |-> EmptyMap])]

env_define(st, env, name, value) ==
  IF st.err # "" THEN st
  ELSE Log([st EXCEPT !.envs[env].values = Insert(@, name, value)],
           [ev |-> "define", act |-> st.act, scope |-> env, name |-> name,
            value |-> value])

\* Environment::get: Some(value) as <<value>>, None as <<>>.
RECURSIVE env_get(_, _, _)
env_get(st, env, name) ==
  IF name \in DOMAIN st.envs[env].values THEN <<st.envs[env].values[name]>>
  ELSE IF st.envs[env].parent = 0 THEN <<>>
  ELSE env_get(st, st.envs[env].parent, name)

\* Environment::ancestor: the scope `distance` parent links out; 0 where the chain
\* ends before (the unwrap() of a None parent, a panic).
RECURSIVE env_ancestor(_, _, _)
env_ancestor(st, env, distance) ==
  IF distance = 0 THEN env
  ELSE IF st.envs[env].parent = 0 THEN 0
  ELSE env_ancestor(st, st.envs[env].parent, distance - 1)

env_assign_at(st, env, distance, name, value) ==
  LET ancestor == env_ancestor(st, env, distance)
  IN IF st.err # "" THEN st
     ELSE IF ancestor = 0 THEN Panic(st, "called Option::unwrap() on a None value")
     ELSE [st EXCEPT !.envs[ancestor].values = Insert(@, name, value)]

env_get_at(st, env, distance, name) ==
  LET ancestor == env_ancestor(st, env, distance)
  IN IF st.err # "" THEN R(st, Null)
     ELSE IF ancestor = 0
     THEN R(Panic(st, "called Option::unwrap() on a None value"), Null)
     ELSE IF name \notin DOMAIN st.envs[ancestor].values
     THEN R(Panic(st, "could not find name in scope for distance"), Null)
     ELSE R(st, st.envs[ancestor].values[name])

\* Environment::mutate: the state after, and the previous value as an Option.
RECURSIVE env_mutate(_, _, _, _)
\* mutate that writes the binding in the receiver scope, wherever the name is
\* defined.
env_mutate_in_receiver(st, env, name, value) ==
  IF st.err # "" THEN [st |-> st, old |-> <<>>]
  ELSE [st |-> [st EXCEPT !.envs[env].values = Insert(@, name, value)],
        old |-> env_get(st, env, name)]

env_mutate(st, env, name, value) ==
  IF st.err # "" THEN [st |-> st, old |-> <<>>]
  ELSE IF name \in DOMAIN st.envs[env].values
  THEN [st |-> [st EXCEPT !.envs[env].values = Insert(@, name, value)],
        old |-> <<st.envs[env].values[name]>>]
  ELSE IF st.envs[env].parent = 0 THEN [st |-> st, old |-> <<>>]
  ELSE env_mutate(st, st.envs[env].parent, name, value)

(***************************************************************************)
(* class.rs, callable.rs, builtins.rs: the Callable capability.            *)
(***************************************************************************)
RECURSIVE find_method(_, _)
\* find_method that asks the superclass chain before the class's own methods.
find_method_superclass_first(class, name) ==
  LET inherited == IF Len(class.superclass) > 0
                   THEN find_method(class.superclass[1], name)
                   ELSE <<>>
  IN IF Len(inherited) > 0 THEN inherited
     ELSE IF name \in DOMAIN class.methods THEN <<class.methods[name]>>
     ELSE <<>>

\* Class::find_method: Some(method) as <<method>>, None as <<>>.
find_method(class, name) ==
  IF name \in DOMAIN class.methods THEN <<class.methods[name]>>
  ELSE IF Len(class.superclass) > 0 THEN find_method(class.superclass[1], name)
  ELSE <<>>

function_arity(function) == Len(function.decl.parameters)
clock_arity == 0
\* arity that looks for init among the class's own methods only.
class_arity_own_init(class) ==
  IF "init" \notin DOMAIN class.methods THEN 0
  ELSE function_arity(class.methods["init"])

class_arity(class) ==
  LET initializer == find_method(class, "init")
  IN IF Len(initializer) = 0 THEN 0 ELSE function_arity(initializer[1])
\* dyn Callable::arity
arity(callable) ==
  IF callable.t = "Class" THEN class_arity(callable)
  ELSE IF callable.builtin THEN clock_arity
  ELSE function_arity(callable)

\* History of a binding: the scopes before and after it.
LogBind(st, before, function, instance, env) ==
  Log(st, [ev |-> "bind", act |-> st.act, method |-> function, instance |-> instance,
           env |-> env, before |-> before.envs, after |-> st.envs,
           value |-> Function(function.decl, env, function.is_initializer)])

\* bind that defines `this` in the method's closure itself, with no scope of
\* its own for the binding.
bind_in_closure(st, function, instance) ==
  IF st.err # "" THEN R(st, Null)
  ELSE IF function.builtin THEN R(Panic(st, "can't bind clock"), Null)
  ELSE LET env == function.closure
           s1 == env_define(st, env, "this", instance)
       IN R(LogBind(s1, st, function, instance, env),
            Function(function.decl, env, function.is_initializer))

\* Function::bind
bind(st, function, instance) ==
  IF st.err # "" THEN R(st, Null)
  ELSE IF function.builtin THEN R(Panic(st, "can't bind clock"), Null)
  ELSE LET env == NewRef(st)
           s1 == env_define(new_ref(st, function.closure), env, "this", instance)
       IN R(LogBind(s1, st, function, instance, env),
            Function(function.decl, env, function.is_initializer))

\* get with the two lookups in the other order: the class's methods first.
instance_get_methods_first(st, ins, name) ==
  LET method == find_method(ins.class, name)
  IN IF st.err # "" THEN R(st, Null)
     ELSE IF Len(method) > 0 THEN bind(st, method[1], ins)
     ELSE IF name \in DOMAIN st.fields[ins.fields]
     THEN R(st, st.fields[ins.fields][name])
     ELSE R(Panic(st, "Undefined property"), Null)

\* ClassInstance::get
instance_get(st, ins, name) ==
  IF st.err # "" THEN R(st, Null)
  ELSE IF name \in DOMAIN st.fields[ins.fields]
  THEN R(st, st.fields[ins.fields][name])
  ELSE LET method == find_method(ins.class, name)
       IN IF Len(method) > 0 THEN bind(st, method[1], ins)
          ELSE R(Panic(st, "Undefined property"), Null)

\* set that writes to the field table made first, whichever instance it is
\* given.
instance_set_first_table(st, ins, name, value) ==
  IF st.err # "" THEN st
  ELSE [st EXCEPT !.fields[1] = Insert(@, name, value)]

\* ClassInstance::set
instance_set(st, ins, name, value) ==
  IF st.err # "" THEN st
  ELSE [st EXCEPT !.fields[ins.fields] = Insert(@, name, value)]

\* ClockFn::call: the clock has moved on by `tick` since it was last read.
clock_call(st) ==
  R([st EXCEPT !.now = @ + st.tick], Number(st.now + st.tick))

(***************************************************************************)
(* types.rs: Display for Object (what `print` writes) and is_truthy;       *)
(* interpreter.rs: is_equal.                                               *)
(***************************************************************************)
\* f64's Display: an integral value prints without a fraction; a fraction is
\* written here as n/d.
NumberText(a) ==
  IF a.d = 0 THEN (IF a.n = 0 THEN "NaN" ELSE IF a.n > 0 THEN "inf" ELSE "-inf")
  ELSE IF a.d = 1 THEN ToString(a.n)
  ELSE ToString(a.n) \o "/" \o ToString(a.d)

Display(value) ==
  CASE value.t = "String" -> value.s
    [] value.t = "Number" -> NumberText(value)
    [] value.t = "Boolean" -> (IF value.b THEN "true" ELSE "false")
    [] value.t = "Callable" -> "<callable:" \o ToString(arity(value)) \o ">"
    [] value.t = "Null" -> "null"
    [] value.t = "Class" -> "<class:" \o value.name \o ">"
    [] value.t = "ClassInstance" -> "<instance:" \o value.class.name \o ">"

\* Truthiness under which every value but false and nil counts as true.
is_truthy_of_any_value(st, value) ==
  IF st.err # "" THEN R(st, FALSE)
  ELSE IF value.t = "Boolean" THEN R(st, value.b)
  ELSE R(st, value.t # "Null")

is_truthy(st, value) ==
  IF st.err # "" THEN R(st, FALSE)
  ELSE IF value.t = "Boolean" THEN R(st, value.b)
  ELSE R(Panic(st, "invalid non-boolean value evaluated to truthy"), FALSE)

\* Equality under which nil also equals false.
is_equal_nil_is_false(left, right) ==
  CASE left.t = "String" /\ right.t = "String" -> left.s = right.s
    [] left.t = "Number" /\ right.t = "Number" -> num_eq(left, right)
    [] left.t = "Boolean" /\ right.t = "Boolean" -> left.b = right.b
    [] left.t = "Null" /\ right.t = "Null" -> TRUE
    [] left.t = "Null" /\ right.t = "Boolean" -> ~right.b
    [] left.t = "Boolean" /\ right.t = "Null" -> ~left.b
    [] OTHER -> FALSE

is_equal(left, right) ==
  CASE left.t = "String" /\ right.t = "String" -> left.s = right.s
    [] left.t = "Number" /\ right.t = "Number" -> num_eq(left, right)
    [] left.t = "Boolean" /\ right.t = "Boolean" -> left.b = right.b
    [] left.t = "Null" /\ right.t = "Null" -> TRUE
    [] OTHER -> FALSE

(***************************************************************************)
(* History of the run: what each variable read, assignment, property       *)
(* access and `super` did, observed from the states before and after it.   *)
(***************************************************************************)
Resolved(st, expr) == expr.id \in DOMAIN st.locals

\* A read of `name` by expression `expr` in state `pre` gave result `r`.
LogRead(pre, expr, name, r) ==
  IF pre.err # "" THEN r
  ELSE LET gdefined == name \in DOMAIN pre.envs[globals].values
       IN R(Log(r.st,
              [ev |-> "read", act |-> pre.act, id |-> expr.id, name |-> name,
               env |-> pre.environment, resolved |-> Resolved(pre, expr),
               distance |-> IF Resolved(pre, expr) THEN pre.locals[expr.id] ELSE 0,
               scope |-> IF Resolved(pre, expr)
                         THEN env_ancestor(pre, pre.environment, pre.locals[expr.id])
                         ELSE globals,
               value |-> r.v, gdefined |-> gdefined,
               gvalue |-> IF gdefined THEN pre.envs[globals].values[name] ELSE Null,
               fatal |-> r.st.err # ""]),
            r.v)

\* The store of assignment expression `expr` took state `mid` (the right-hand side
\* evaluated to `value`) to state `post`.
LogAssign(expr, mid, post, value) ==
  IF mid.err # "" THEN post
  ELSE LET scopes == 1 .. Len(mid.envs)
           resolved == Resolved(mid, expr)
       IN Log(post,
            [ev |-> "assign", act |-> mid.act, id |-> expr.id, name |-> expr.name,
             env |-> mid.environment, resolved |-> resolved,
             distance |-> IF resolved THEN mid.locals[expr.id] ELSE 0,
             target |-> IF resolved
                        THEN env_ancestor(mid, mid.environment, mid.locals[expr.id])
                        ELSE globals,
             value |-> value,
             visible |-> Len(env_get(mid, mid.environment, expr.name)) > 0,
             stored |-> LET target == IF resolved
                                      THEN env_ancestor(mid, mid.environment,
                                                        mid.locals[expr.id])
                                      ELSE globals
                        IN /\ target # 0
                           /\ expr.name \in DOMAIN post.envs[target].values
                           /\ post.envs[target].values[expr.name] = value,
             changed |-> {i \in scopes : mid.envs[i] # post.envs[i]},
             created |-> {i \in scopes : /\ expr.name \notin DOMAIN mid.envs[i].values
                                         /\ expr.name \in DOMAIN post.envs[i].values},
             gdefined |-> expr.name \in DOMAIN mid.envs[globals].values,
             fatal |-> post.err # ""])

(***************************************************************************)
(* interpreter.rs: the Interpreter.                                        *)
(***************************************************************************)
RECURSIVE eval(_, _), eval_args(_, _, _), eval_call(_, _, _), eval_logical(_, _, _, _)
RECURSIVE eval_call_arguments_first(_, _, _)
RECURSIVE eval_unary(_, _, _), eval_binary(_, _, _, _), eval_assign(_, _, _)
RECURSIVE eval_get(_, _, _), eval_set(_, _, _, _)
RECURSIVE execute_stmt(_, _), execute(_, _), execute_block(_, _, _)
RECURSIVE block_loop(_, _, _), while_loop(_, _, _), execute_class_decl(_, _)
RECURSIVE function_call(_, _, _), class_call(_, _, _), callable_call(_, _, _)

\* History of a call expression: the callee's value, each argument's value
\* and, once both are there, the call about to be checked and made.
LogCallee(st, callee, value) ==
  IF st.err # "" THEN st
  ELSE Log(st, [ev |-> "callee", act |-> st.act, id |-> callee.id, value |-> value])

LogArgument(st, arg, index, value) ==
  IF st.err # "" THEN st
  ELSE Log(st, [ev |-> "arg", act |-> st.act, id |-> arg.id, index |-> index,
                value |-> value])

\* History of a binary operator that yielded a value.
LogBinary(st, op, left, right, value) ==
  Log(st, [ev |-> "binary", act |-> st.act, op |-> op, left |-> left,
           right |-> right, value |-> value])

LogCallSite(st, callee, args, value, arguments) ==
  IF st.err # "" THEN st
  ELSE Log(st, [ev |-> "callsite", act |-> st.act, id |-> callee.id,
                args |-> [k \in 1 .. Len(args) |-> args[k].id], callee |-> value,
                arguments |-> arguments, instances |-> Len(st.fields),
                output |-> st.output])

eval_literal(st, value) == R(st, value)

\* lookup_var with the unresolved name looked up along the current chain, the way
\* Environment::get does, instead of in globals.
lookup_var_from_environment(st, name, expr) ==
  IF expr.id \in DOMAIN st.locals
  THEN env_get_at(st, st.environment, st.locals[expr.id], name)
  ELSE LET found == env_get(st, st.environment, name)
       IN IF Len(found) = 0
          THEN R(Panic(st, "could not find variable in environment nor global scope"),
                 Null)
          ELSE R(st, found[1])

lookup_var(st, name, expr) ==
  IF expr.id \in DOMAIN st.locals
  THEN env_get_at(st, st.environment, st.locals[expr.id], name)
  ELSE LET found == env_get(st, globals, name)
       IN IF Len(found) = 0
          THEN R(Panic(st, "could not find variable in environment nor global scope"),
                 Null)
          ELSE R(st, found[1])

eval_var(st, name, expr) == lookup_var(st, name, expr)

\* `expr` is what the Assign arm of eval passes: the right-hand side.  The result
\* also carries `mid`, the state between the evaluation of the right-hand side
\* and the store.
eval_assign(st, name, expr) ==
  Bind([value \in {eval(st, expr)} |->
    [st |-> IF value.st.err # "" THEN value.st
            ELSE IF expr.id \in DOMAIN value.st.locals
            THEN env_assign_at(value.st, value.st.environment,
                               value.st.locals[expr.id], name, value.v)
            ELSE env_mutate(value.st, value.st.environment, name, value.v).st,
     v |-> value.v,
     mid |-> value.st]])

\* The Super arm with the lookup started from the superclass of the instance's
\* own class instead of the `super` of the enclosing class declaration.
eval_super_dynamic(st, expr) ==
  IF expr.id \notin DOMAIN st.locals
  THEN R(Panic(st, "called Option::unwrap() on a None value"), Null)
  ELSE LET distance == st.locals[expr.id]
           object == IF distance = 0
                     THEN R(Panic(st, "attempt to subtract with overflow"), Null)
                     ELSE env_get_at(st, st.environment, distance - 1, "this")
       IN IF object.st.err # "" THEN object
          ELSE IF object.v.t # "ClassInstance"
          THEN R(Panic(st, "bug: environment.get(this) did not return a class instance"),
                 Null)
          ELSE IF Len(object.v.class.superclass) = 0
          THEN R(Panic(st, "bug: environment.get(super) did not return a class"), Null)
          ELSE LET superclass == object.v.class.superclass[1]
                   method == find_method(superclass, expr.method)
               IN IF Len(method) = 0 THEN R(Panic(st, "method not found"), Null)
                  ELSE LET bound == bind(object.st, method[1], object.v)
                       IN R(Log(bound.st,
                              [ev |-> "super", act |-> st.act, id |-> expr.id,
                               env |-> st.environment, method |-> expr.method,
                               superclass |-> superclass, this |-> object.v,
                               found |-> method[1], value |-> bound.v]),
                            bound.v)

\* The ExprKind::Super arm of eval.
eval_super(st, expr) ==
  IF expr.id \notin DOMAIN st.locals
  THEN R(Panic(st, "called Option::unwrap() on a None value"), Null)
  ELSE LET distance == st.locals[expr.id]
           superclass == env_get_at(st, st.environment, distance, "super")
           object == IF distance = 0
                     THEN R(Panic(superclass.st, "attempt to subtract with overflow"), Null)
                     ELSE env_get_at(superclass.st, st.environment, distance - 1, "this")
       IN IF superclass.st.err # "" THEN superclass
          ELSE IF superclass.v.t # "Class"
          THEN R(Panic(st, "bug: environment.get(super) did not return a class"), Null)
          ELSE IF object.st.err # "" THEN object
          ELSE IF object.v.t # "ClassInstance"
          THEN R(Panic(st, "bug: environment.get(this) did not return a class instance"),
                 Null)
          ELSE LET method == find_method(superclass.v, expr.method)
               IN IF Len(method) = 0 THEN R(Panic(st, "method not found"), Null)
                  ELSE LET bound == bind(object.st, method[1], object.v)
                       IN R(Log(bound.st,
                              [ev |-> "super", act |-> st.act, id |-> expr.id,
                               env |-> st.environment, method |-> expr.method,
                               superclass |-> superclass.v, this |-> object.v,
                               found |-> method[1], value |-> bound.v]),
                            bound.v)

\* args.iter().map(|arg| self.eval(arg)).collect(): left to right.
eval_args(st, args, acc) ==
  IF Len(args) = 0 \/ st.err # "" THEN R(st, acc)
  ELSE LET r == eval(st, Head(args))
       IN eval_args(LogArgument(r.st, Head(args), Len(acc) + 1, r.v), Tail(args),
                    Append(acc, r.v))

\* eval_call with the two evaluations in the other order: the arguments first.
eval_call_arguments_first(st, callee, args) ==
  Bind([arguments \in {eval_args(st, args, <<>>)} |->
    Bind([c \in {eval(arguments.st, callee)} |->
      LET s == LogCallSite(LogCallee(c.st, callee, c.v), callee, args, c.v, arguments.v)
      IN IF s.err # "" THEN R(s, Null)
         ELSE IF c.v.t \notin {"Callable", "Class"}
         THEN R(Panic(s, "is not callable"), Null)
         ELSE IF arity(c.v) # Len(arguments.v)
         THEN R(Panic(s, "called fn/{arity} with {n_args}"), Null)
         ELSE callable_call(s, c.v, arguments.v)])])

eval_call(st, callee, args) ==
  Bind([c \in {eval(st, callee)} |->
    Bind([arguments \in {eval_args(LogCallee(c.st, callee, c.v), args, <<>>)} |->
      LET s == LogCallSite(arguments.st, callee, args, c.v, arguments.v)
      IN IF s.err # "" THEN R(s, Null)
         ELSE IF c.v.t \notin {"Callable", "Class"}
         THEN R(Panic(s, "is not callable"), Null)
         ELSE IF arity(c.v) # Len(arguments.v)
         THEN R(Panic(s, "called fn/{arity} with {n_args}"), Null)
         ELSE callable_call(s, c.v, arguments.v)])])

\* eval_logical that evaluates both operands before it looks at the left one.
eval_logical_eager(st, left, op, right) ==
  Bind([l \in {eval(st, left)} |->
    Bind([r \in {eval(l.st, right)} |->
      LET truthy == is_truthy(r.st, l.v)
      IN IF truthy.st.err # "" THEN R(truthy.st, Null)
         ELSE IF op = "Or" THEN (IF truthy.v THEN R(r.st, l.v) ELSE r)
         ELSE IF ~truthy.v THEN R(r.st, l.v)
         ELSE r])])

eval_logical(st, left, op, right) ==
  LET l == eval(st, left)
      truthy == is_truthy(l.st, l.v)
  IN IF truthy.st.err # "" THEN R(truthy.st, Null)
     ELSE IF op = "Or"
     THEN (IF truthy.v THEN l ELSE eval(l.st, right))
     ELSE IF ~truthy.v THEN l
     ELSE eval(l.st, right)

\* History: one record per unary minus that yielded a value.
LogUnary(st, op, right, value) ==
  Log(st, [ev |-> "unary", act |-> st.act, op |-> op, right |-> right, value |-> value])

\* eval_unary with a logical not: ! negates a Boolean.
eval_unary_with_not(st, op, right) ==
  LET sub == eval(st, right)
  IN IF sub.st.err # "" THEN sub
     ELSE IF op = "Minus"
     THEN (IF sub.v.t = "Number"
           THEN R(LogUnary(sub.st, op, sub.v, num_neg(sub.v)), num_neg(sub.v))
           ELSE R(Panic(sub.st, "invalid "), Null))
     ELSE IF sub.v.t = "Boolean" THEN R(sub.st, Boolean(~sub.v.b))
     ELSE R(Panic(sub.st, "unexpected token. Expecting '-'"), Null)

eval_unary(st, op, right) ==
  IF op = "Minus"
  THEN LET sub == eval(st, right)
       IN IF sub.st.err # "" THEN sub
          ELSE IF sub.v.t = "Number"
          THEN R(LogUnary(sub.st, op, sub.v, num_neg(sub.v)), num_neg(sub.v))
          ELSE R(Panic(sub.st, "invalid "), Null)
  ELSE R(Panic(st, "unexpected token. Expecting '-'"), Null)

eval_binary(st, left, op, right) ==
  LET l == eval(st, left)
      r == eval(l.st, right)
      s == r.st
      numbers == l.v.t = "Number" /\ r.v.t = "Number"
      Yield(value) == R(LogBinary(s, op, l.v, r.v, value), value)
  IN IF s.err # "" THEN R(s, Null)
     ELSE CASE numbers /\ op = "Minus" -> Yield(num_sub(l.v, r.v))
            [] numbers /\ op = "Plus" -> Yield(num_add(l.v, r.v))
            [] numbers /\ op = "Slash" -> Yield(num_div(l.v, r.v))
            [] numbers /\ op = "Star" -> Yield(num_mul(l.v, r.v))
            [] numbers /\ op = "Greater" -> Yield(Boolean(num_lt(r.v, l.v)))
            [] numbers /\ op = "GreaterEqual" -> Yield(Boolean(num_le(r.v, l.v)))
            [] numbers /\ op = "Less" -> Yield(Boolean(num_lt(l.v, r.v)))
            [] numbers /\ op = "LessEqual" -> Yield(Boolean(num_le(l.v, r.v)))
            [] op = "EqualEqual" -> Yield(Boolean(is_equal(l.v, r.v)))
            [] op = "BangEqual" -> Yield(Boolean(~is_equal(l.v, r.v)))
            [] l.v.t = "String" /\ r.v.t = "String" /\ op = "Plus" ->
                 Yield(String(l.v.s \o r.v.s))
            [] OTHER -> R(Panic(s, "invalid operator. This isn't javascript"), Null)

eval_get(st, name, object) ==
  LET obj == eval(st, object)
  IN IF obj.st.err # "" THEN obj
     ELSE IF obj.v.t # "ClassInstance"
     THEN R(Panic(obj.st, "only instances have properties"), Null)
     ELSE LET got == instance_get(obj.st, obj.v, name)
          IN R(Log(got.st,
                 [ev |-> "get", act |-> st.act, instance |-> obj.v.fields,
                  class |-> obj.v.class, name |-> name, value |-> got.v,
                  fatal |-> got.st.err # "", via |-> object.kind,
                  tables |-> obj.st.fields]),
               got.v)

eval_set(st, object, name, value) ==
  LET obj == eval(st, object)
  IN IF obj.st.err # "" THEN obj
     ELSE IF obj.v.t # "ClassInstance"
     THEN R(Panic(obj.st, "only instances have fields"), Null)
     ELSE LET val == eval(obj.st, value)
          IN IF val.st.err # "" THEN val
             ELSE R(Log(instance_set(val.st, obj.v, name, val.v),
                      [ev |-> "set", act |-> st.act, instance |-> obj.v.fields,
                       name |-> name, value |-> val.v, via |-> object.kind,
                       before |-> val.st.fields,
                       after |-> instance_set(val.st, obj.v, name, val.v).fields]),
                    val.v)

eval(st, expr) ==
  IF st.err # "" THEN R(st, Null)
  ELSE CASE expr.kind = "Binary" -> eval_binary(st, expr.left, expr.op, expr.right)
         [] expr.kind = "Grouping" -> eval(st, expr.expr)
         [] expr.kind = "Literal" -> eval_literal(st, expr.value)
         [] expr.kind = "Unary" -> eval_unary(st, expr.op, expr.right)
         [] expr.kind = "Var" ->
              LogRead(st, expr, expr.name, eval_var(st, expr.name, expr))
         [] expr.kind = "Assign" ->
              Bind([r \in {eval_assign(st, expr.name, expr.expr)} |->
                R(LogAssign(expr, r.mid, r.st, r.v), r.v)])
         [] expr.kind = "Logical" -> eval_logical(st, expr.left, expr.op, expr.right)
         [] expr.kind = "Call" -> eval_call(st, expr.callee, expr.args)
         [] expr.kind = "Get" -> eval_get(st, expr.name, expr.object)
         [] expr.kind = "Set" -> eval_set(st, expr.object, expr.name, expr.value)
         [] expr.kind = "This" ->
              LogRead(st, expr, expr.token, lookup_var(st, expr.token, expr))
         [] expr.kind = "Super" -> eval_super(st, expr)

(***************************************************************************)
(* callable.rs Function::call, class.rs Class::call.                       *)
(***************************************************************************)
RECURSIVE define_params(_, _, _, _, _)
\* for (i, param) in parameters.iter().enumerate() { env.define(param, args[i]) }
define_params(st, env, parameters, args, i) ==
  IF i > Len(parameters) THEN st
  ELSE define_params(env_define(st, env, parameters[i], args[i]), env, parameters,
                     args, i + 1)

\* call whose normal completion yields Null, whatever the body's last
\* declaration was.
function_call_yields_nil(st, function, args) ==
  IF st.err # "" THEN R(st, Null)
  ELSE IF st.depth >= MaxCallDepth
  THEN R(Panic(st, "thread 'main' has overflowed its stack"), Null)
  ELSE LET env == NewRef(st)
           a == st.nact + 1
           s0 == Log([new_ref(st, function.closure)
                        EXCEPT !.depth = @ + 1, !.act = a, !.nact = a],
                     [ev |-> "call", act |-> a, caller |-> st.act,
                      closure |-> function.closure, env |-> env,
                      is_initializer |-> function.is_initializer,
                      body |-> function.decl.body])
       IN Bind([b \in {execute_block(
                         define_params(s0, env, function.decl.parameters, args, 1),
                         function.decl.body, env)} |->
            Bind([result \in {IF b.flow = "Err" THEN R(b.st, b.v)
                              ELSE IF function.is_initializer
                              THEN env_get_at(b.st, function.closure, 0, "this")
                              ELSE R(b.st, Null)} |->
              IF result.st.err # "" THEN R(result.st, Null)
              ELSE R(LogFrame(Log([result.st EXCEPT !.depth = st.depth, !.act = st.act],
                                [ev |-> "call_end", act |-> a,
                                 returned |-> b.flow = "Err", value |-> result.v]),
                              IF function.is_initializer THEN "initializer" ELSE "call",
                              st.environment, b.flow),
                     result.v)])])

function_call(st, function, args) ==
  IF st.err # "" THEN R(st, Null)
  ELSE IF st.depth >= MaxCallDepth
  THEN R(Panic(st, "thread 'main' has overflowed its stack"), Null)
  ELSE LET env == NewRef(st)
           a == st.nact + 1
           s0 == Log([new_ref(st, function.closure)
                        EXCEPT !.depth = @ + 1, !.act = a, !.nact = a],
                     [ev |-> "call", act |-> a, caller |-> st.act,
                      closure |-> function.closure, env |-> env,
                      is_initializer |-> function.is_initializer,
                      body |-> function.decl.body])
       IN Bind([b \in {execute_block(
                         define_params(s0, env, function.decl.parameters, args, 1),
                         function.decl.body, env)} |->
            Bind([result \in {IF b.flow = "Err" THEN R(b.st, b.v)
                              ELSE IF function.is_initializer
                              THEN env_get_at(b.st, function.closure, 0, "this")
                              ELSE R(b.st, b.v)} |->
              IF result.st.err # "" THEN R(result.st, Null)
              ELSE R(LogFrame(Log([result.st EXCEPT !.depth = st.depth, !.act = st.act],
                                [ev |-> "call_end", act |-> a,
                                 returned |-> b.flow = "Err", value |-> result.v]),
                              IF function.is_initializer THEN "initializer" ELSE "call",
                              st.environment, b.flow),
                     result.v)])])

\* History of a constructor call: the instance as it was made, and as it was
\* when the call returned it.
LogConstruct(st, when, instance, args) ==
  IF st.err # "" THEN st
  ELSE Log(st, [ev |-> when, act |-> st.act, instance |-> instance.fields,
                value |-> instance, arguments |-> args,
                table |-> st.fields[instance.fields], tables |-> Len(st.fields),
                after |-> st.fields])

\* call that looks for init among the class's own methods only.
class_call_own_init(st, class, args) ==
  IF st.err # "" THEN R(st, Null)
  ELSE LET fields_ref == Len(st.fields) + 1
           instance == ClassInstance(class, fields_ref)
           s1 == LogConstruct([st EXCEPT !.fields = Append(@, EmptyMap)], "construct",
                              instance, args)
       IN IF "init" \notin DOMAIN class.methods
          THEN R(LogFrame(LogConstruct(s1, "constructed", instance, args),
                          "construct", st.environment, "Ok"), instance)
          ELSE Bind([bound \in {bind(s1, class.methods["init"], instance)} |->
                 R(LogFrame(LogConstruct(function_call(bound.st, bound.v, args).st,
                                         "constructed", instance, args),
                            "construct", st.environment, "Ok"),
                   instance)])

class_call(st, class, args) ==
  IF st.err # "" THEN R(st, Null)
  ELSE LET fields_ref == Len(st.fields) + 1
           instance == ClassInstance(class, fields_ref)
           s1 == LogConstruct([st EXCEPT !.fields = Append(@, EmptyMap)], "construct",
                              instance, args)
           initializer == find_method(class, "init")
       IN IF Len(initializer) = 0
          THEN R(LogFrame(LogConstruct(s1, "constructed", instance, args),
                          "construct", st.environment, "Ok"), instance)
          ELSE Bind([bound \in {bind(s1, initializer[1], instance)} |->
                 R(LogFrame(LogConstruct(function_call(bound.st, bound.v, args).st,
                                         "constructed", instance, args),
                            "construct", st.environment, "Ok"),
                   instance)])

\* dyn Callable::call
callable_call(st, callable, args) ==
  IF callable.t = "Class" THEN class_call(st, callable, args)
  ELSE IF callable.builtin THEN clock_call(st)
  ELSE function_call(st, callable, args)

(***************************************************************************)
(* Statements.                                                             *)
(***************************************************************************)
\* The loop of execute_block without the early return on Err: the statements
\* after a `return` still run.
block_loop_past_return(st, statements, last) ==
  IF st.err # "" THEN FlowOk(st, Null)
  ELSE IF Len(statements) = 0 THEN FlowOk(st, last)
  ELSE Bind([f \in {execute(st, Head(statements))} |->
         IF f.flow = "Err" /\ Len(statements) = 1 THEN f
         ELSE block_loop(f.st, Tail(statements), f.v)])

\* The loop of execute_block over statements[i..]; `last` is the value so far.
block_loop(st, statements, last) ==
  IF st.err # "" THEN FlowOk(st, Null)
  ELSE IF Len(statements) = 0 THEN FlowOk(st, last)
  ELSE Bind([f \in {execute(st, Head(statements))} |->
         IF f.flow = "Err" THEN f
         ELSE block_loop(f.st, Tail(statements), f.v)])

\* execute_block that puts the previous scope back on normal completion only.
execute_block_kept_on_return(st, statements, env) ==
  IF st.err # "" THEN FlowOk(st, Null)
  ELSE LET prev_env == st.environment
       IN Bind([f \in {block_loop([st EXCEPT !.environment = env], statements, Null)} |->
            IF f.st.err # "" \/ f.flow = "Err" THEN f
            ELSE [f EXCEPT !.st.environment = prev_env]])

execute_block(st, statements, env) ==
  IF st.err # "" THEN FlowOk(st, Null)
  ELSE LET prev_env == st.environment
       IN Bind([f \in {block_loop([st EXCEPT !.environment = env], statements, Null)} |->
            IF f.st.err # "" THEN f
            ELSE [f EXCEPT !.st.environment = prev_env]])

\* Stmt::While: `n` counts the iterations left before the run is cut off.
while_loop(st, stmt, n) ==
  Bind([c \in {eval(st, stmt.condition)} |->
    IF c.st.err # "" THEN FlowOk(c.st, Null)
    ELSE IF c.v.t # "Boolean"
    THEN FlowOk(Panic(c.st, "while condition can only be boolean"), Null)
    ELSE IF ~c.v.b THEN FlowOk(c.st, Null)
    ELSE IF n = 0 THEN FlowOk(Panic(c.st, "loop cut off"), Null)
    ELSE Bind([f \in {execute_stmt(c.st, stmt.body)} |->
           IF f.flow = "Err" \/ f.st.err # "" THEN f
           ELSE while_loop(f.st, stmt, n - 1)])])

RECURSIVE build_methods(_, _, _)
\* for method in &class_decl.methods { methods.insert(name, Function::new(..)) }
build_methods(st, class_methods, methods) ==
  IF Len(class_methods) = 0 THEN methods
  ELSE LET method == Head(class_methods)
       IN build_methods(st, Tail(class_methods),
            Insert(methods, method.identifier,
                   Function(method, st.environment, method.identifier = "init")))

execute_class_decl(st, class_decl) ==
  Bind([sup \in {IF Len(class_decl.superclass) > 0
                 THEN eval(st, class_decl.superclass[1])
                 ELSE R(st, Null)} |->
    LET has_super == Len(class_decl.superclass) > 0
        s1 == env_define(sup.st, sup.st.environment, class_decl.name, Null)
        env == NewRef(s1)
        s2 == IF has_super
              THEN env_define([new_ref(s1, s1.environment) EXCEPT !.environment = env],
                              env, "super", sup.v)
              ELSE s1
        methods == build_methods(s2, class_decl.methods, EmptyMap)
        class == Class(class_decl.name, IF has_super THEN <<sup.v>> ELSE <<>>, methods)
        s3 == IF has_super THEN [s2 EXCEPT !.environment = s2.envs[env].parent] ELSE s2
        s4 == env_mutate(s3, s3.environment, class_decl.name, class).st
    IN IF sup.st.err # "" THEN FlowOk(sup.st, Null)
       ELSE IF has_super /\ sup.v.t # "Class"
       THEN FlowOk(Panic(sup.st, "superclass is not a class!"), Null)
       ELSE FlowOk(LogFrame(Log(s4, [ev |-> "define", act |-> st.act,
                                     scope |-> s3.environment,
                                     name |-> class_decl.name, value |-> class]),
                            IF has_super THEN "subclass" ELSE "class",
                            st.environment, "Ok"),
                   Null)])

execute_stmt(st, stmt) ==
  IF st.err # "" THEN FlowOk(st, Null)
  ELSE LET s == Log(st, [ev |-> "exec", act |-> st.act, stmt |-> stmt.stmt])
       IN CASE stmt.stmt = "Expr" ->
                 Bind([r \in {eval(s, stmt.expr)} |->
                   IF r.st.err # "" THEN FlowOk(r.st, Null)
                   ELSE FlowOk(Log(r.st, [ev |-> "expr", act |-> st.act, value |-> r.v]),
                               r.v)])
            [] stmt.stmt = "If" ->
                 Bind([c \in {eval(s, stmt.condition)} |->
                   IF c.st.err # "" THEN FlowOk(c.st, Null)
                   ELSE IF c.v.t # "Boolean"
                   THEN FlowOk(Panic(c.st, "if condition can only be boolean"), Null)
                   ELSE IF c.v.b THEN execute_stmt(c.st, stmt.then_branch)
                   ELSE IF Len(stmt.else_branch) > 0
                   THEN execute_stmt(c.st, stmt.else_branch[1])
                   ELSE FlowOk(c.st, Null)])
            [] stmt.stmt = "Print" ->
                 Bind([r \in {eval(s, stmt.expr)} |->
                   IF r.st.err # "" THEN FlowOk(r.st, Null)
                   ELSE FlowOk([r.st EXCEPT !.output = Append(@, Display(r.v))], Null)])
            [] stmt.stmt = "While" -> while_loop(s, stmt, MaxLoop)
            [] stmt.stmt = "Block" ->
                 Bind([f \in {execute_block(new_ref(s, s.environment), stmt.decls,
                                            NewRef(s))} |->
                   [f EXCEPT !.st = LogFrame(f.st, "block", s.environment, f.flow)]])
            [] stmt.stmt = "FunctionDecl" ->
                 LET fun == Function(stmt.function_stmt, s.environment, FALSE)
                 IN FlowOk(env_define(s, s.environment,
                                      stmt.function_stmt.identifier, fun), Null)
            [] stmt.stmt = "Return" ->
                 Bind([r \in {eval(s, stmt.value)} |->
                   IF r.st.err # "" THEN FlowOk(r.st, Null)
                   ELSE FlowErr(Log(r.st, [ev |-> "return", act |-> st.act,
                                           value |-> r.v]),
                                r.v)])
            [] stmt.stmt = "ClassDecl" -> execute_class_decl(s, stmt)

execute(st, decl) ==
  IF st.err # "" THEN FlowOk(st, Null)
  ELSE IF decl.decl = "Statement" THEN execute_stmt(st, decl.stmt)
  ELSE Bind([r \in {eval(Log(st, [ev |-> "exec", act |-> st.act, stmt |-> "Var"]),
                         decl.expression)} |->
         FlowOk(env_define(r.st, r.st.environment, decl.identifier, r.v), Null)])

(***************************************************************************)
(* The programs.  A program is the concatenation of at most MaxFragments   *)
(* fragments of the pool below; each fragment is given as lox source and   *)
(* as the AST syntax.rs parses it to (expression ids as get_expr_id hands  *)
(* them out, running on from fragment to fragment).                        *)
(***************************************************************************)
(* NestedScopes: expression ids 0..12
     { var a = 1; { { a = a + 1; print a; } } { var b = a; a = 7; print b; } print a; }
*)
NestedScopes ==
  <<
    Statement(Block(<<VarDecl("a", Literal(0, Number(1))), Statement(Block(<<Statement(Block(<<Statement(ExprStmt(Assign(5,
      "a", Binary(4, Var(2, "a"), "Plus", Literal(3, Number(1)))))), Statement(PrintStmt(Var(6, "a")))>>))>>)),
      Statement(Block(<<VarDecl("b", Var(7, "a")), Statement(ExprStmt(Assign(10, "a", Literal(9, Number(7))))),
      Statement(PrintStmt(Var(11, "b")))>>)), Statement(PrintStmt(Var(12, "a")))>>))
  >>

(* AssignFromInner: expression ids 13..19
     { var a = 1; { var b = 2; a = b; print a; } print a; }
*)
AssignFromInner ==
  <<
    Statement(Block(<<VarDecl("a", Literal(13, Number(1))), Statement(Block(<<VarDecl("b", Literal(14,
      Number(2))), Statement(ExprStmt(Assign(17, "a", Var(16, "b")))), Statement(PrintStmt(Var(18,
      "a")))>>)), Statement(PrintStmt(Var(19, "a")))>>))
  >>

(* NestedAssign: expression ids 20..28
     { var a = 1; { var b = 2; a = b = 3; print a; print b; } }
*)
NestedAssign ==
  <<
    Statement(Block(<<VarDecl("a", Literal(20, Number(1))), Statement(Block(<<VarDecl("b", Literal(21,
      Number(2))), Statement(ExprStmt(Assign(26, "a", Assign(25, "b", Literal(24, Number(3)))))),
      Statement(PrintStmt(Var(27, "a"))), Statement(PrintStmt(Var(28, "b")))>>))>>))
  >>

(* Counter: expression ids 29..46
     fun makeCounter() { var i = 0; fun count() { i = i + 1; return i; } return count; }
     var counter = makeCounter();
     print counter();
     print counter();
     print counter();
*)
Counter ==
  <<
    Statement(FunctionDecl(FunctionStmt("makeCounter", <<>>, <<VarDecl("i", Literal(29, Number(0))),
      Statement(FunctionDecl(FunctionStmt("count", <<>>, <<Statement(ExprStmt(Assign(34, "i", Binary(33,
      Var(31, "i"), "Plus", Literal(32, Number(1)))))), Statement(Return(Var(36, "i")))>>))), Statement(Return(Var(38,
      "count")))>>))),
    VarDecl("counter", Call(40, Var(39, "makeCounter"), <<>>)),
    Statement(PrintStmt(Call(42, Var(41, "counter"), <<>>))),
    Statement(PrintStmt(Call(44, Var(43, "counter"), <<>>))),
    Statement(PrintStmt(Call(46, Var(45, "counter"), <<>>)))
  >>

(* SetterGetter: expression ids 47..64
     { var v = 0; fun set(x) { v = x; } fun get() { return v; } print get(); v = 6; print get(); set(5); print get(); }
*)
SetterGetter ==
  <<
    Statement(Block(<<VarDecl("v", Literal(47, Number(0))), Statement(FunctionDecl(FunctionStmt("set",
      <<"x">>, <<Statement(ExprStmt(Assign(50, "v", Var(49, "x"))))>>))), Statement(FunctionDecl(FunctionStmt("get",
      <<>>, <<Statement(Return(Var(52, "v")))>>))), Statement(PrintStmt(Call(54, Var(53, "get"), <<>>))),
      Statement(ExprStmt(Assign(57, "v", Literal(56, Number(6))))), Statement(PrintStmt(Call(59, Var(58,
      "get"), <<>>))), Statement(ExprStmt(Call(62, Var(60, "set"), <<Literal(61, Number(5))>>))),
      Statement(PrintStmt(Call(64, Var(63, "get"), <<>>)))>>))
  >>

(* GlobalFromLocal: expression ids 65..70
     var g = 0;
     { var l = 5; g = l; }
     print g;
*)
GlobalFromLocal ==
  <<
    VarDecl("g", Literal(65, Number(0))),
    Statement(Block(<<VarDecl("l", Literal(66, Number(5))), Statement(ExprStmt(Assign(69, "g", Var(68,
      "l"))))>>)),
    Statement(PrintStmt(Var(70, "g")))
  >>

(* GlobalFromGlobal: expression ids 71..76
     var g1 = 1;
     var g2 = 2;
     g1 = g2;
     print g1;
*)
GlobalFromGlobal ==
  <<
    VarDecl("g1", Literal(71, Number(1))),
    VarDecl("g2", Literal(72, Number(2))),
    Statement(ExprStmt(Assign(75, "g1", Var(74, "g2")))),
    Statement(PrintStmt(Var(76, "g1")))
  >>

(* LateShadowAssign: expression ids 77..85
     var s = 0;
     { fun set() { s = 5; } var s = 1; set(); print s; }
     print s;
*)
LateShadowAssign ==
  <<
    VarDecl("s", Literal(77, Number(0))),
    Statement(Block(<<Statement(FunctionDecl(FunctionStmt("set", <<>>, <<Statement(ExprStmt(Assign(80,
      "s", Literal(79, Number(5)))))>>))), VarDecl("s", Literal(81, Number(1))), Statement(ExprStmt(Call(83,
      Var(82, "set"), <<>>))), Statement(PrintStmt(Var(84, "s")))>>)),
    Statement(PrintStmt(Var(85, "s")))
  >>

(* AssignUndefined: expression ids 86..90
     print "before";
     undefinedName = 1;
     print "after";
*)
AssignUndefined ==
  <<
    Statement(PrintStmt(Literal(86, String("before")))),
    Statement(ExprStmt(Assign(89, "undefinedName", Literal(88, Number(1))))),
    Statement(PrintStmt(Literal(90, String("after"))))
  >>

(* AssignUndefinedLocal: expression ids 91..97
     fun touch() { missing = 2; return 3; }
     print touch();
*)
AssignUndefinedLocal ==
  <<
    Statement(FunctionDecl(FunctionStmt("touch", <<>>, <<Statement(ExprStmt(Assign(93, "missing",
      Literal(92, Number(2))))), Statement(Return(Literal(95, Number(3))))>>))),
    Statement(PrintStmt(Call(97, Var(96, "touch"), <<>>)))
  >>

(* ShowGlobal: expression ids 98..104
     var a = "global";
     { fun show() { print a; } show(); var a = "block"; show(); }
*)
ShowGlobal ==
  <<
    VarDecl("a", Literal(98, String("global"))),
    Statement(Block(<<Statement(FunctionDecl(FunctionStmt("show", <<>>, <<Statement(PrintStmt(Var(99,
      "a")))>>))), Statement(ExprStmt(Call(101, Var(100, "show"), <<>>))), VarDecl("a", Literal(102,
      String("block"))), Statement(ExprStmt(Call(104, Var(103, "show"), <<>>)))>>))
  >>

(* ReadUndefined: expression ids 105..107
     print "before";
     print nope;
     print "after";
*)
ReadUndefined ==
  <<
    Statement(PrintStmt(Literal(105, String("before")))),
    Statement(PrintStmt(Var(106, "nope"))),
    Statement(PrintStmt(Literal(107, String("after"))))
  >>

(* GlobalTracksUpdate: expression ids 108..120
     var w = 1;
     fun peek() { return w; }
     print peek();
     w = 2;
     print peek();
     var w = 3;
     print peek();
*)
GlobalTracksUpdate ==
  <<
    VarDecl("w", Literal(108, Number(1))),
    Statement(FunctionDecl(FunctionStmt("peek", <<>>, <<Statement(Return(Var(110, "w")))>>))),
    Statement(PrintStmt(Call(112, Var(111, "peek"), <<>>))),
    Statement(ExprStmt(Assign(115, "w", Literal(114, Number(2))))),
    Statement(PrintStmt(Call(117, Var(116, "peek"), <<>>))),
    VarDecl("w", Literal(118, Number(3))),
    Statement(PrintStmt(Call(120, Var(119, "peek"), <<>>)))
  >>

(* RedeclareVar: expression ids 121..123
     print "start";
     { var r = 1; var r = 2; }
*)
RedeclareVar ==
  <<
    Statement(PrintStmt(Literal(121, String("start")))),
    Statement(Block(<<VarDecl("r", Literal(122, Number(1))), VarDecl("r", Literal(123, Number(2)))>>))
  >>

(* RedeclareParam: expression ids 124..125
     fun twice(p, p) { return p; }
*)
RedeclareParam ==
  <<
    Statement(FunctionDecl(FunctionStmt("twice", <<"p", "p">>, <<Statement(Return(Var(125, "p")))>>)))
  >>

(* RedeclareParamBody: expression ids 126..128
     fun body(p) { var p = 1; return p; }
*)
RedeclareParamBody ==
  <<
    Statement(FunctionDecl(FunctionStmt("body", <<"p">>, <<VarDecl("p", Literal(126, Number(1))),
      Statement(Return(Var(128, "p")))>>)))
  >>

(* RedeclareFun: expression ids 129..131
     { fun f() { return 1; } var f = 1; }
*)
RedeclareFun ==
  <<
    Statement(Block(<<Statement(FunctionDecl(FunctionStmt("f", <<>>, <<Statement(Return(Literal(130,
      Number(1))))>>))), VarDecl("f", Literal(131, Number(1)))>>))
  >>

(* RedeclareClass: expression ids 132..131
     { class K { } class K { } }
*)
RedeclareClass ==
  <<
    Statement(Block(<<Statement(ClassDecl("K", <<>>, <<>>)), Statement(ClassDecl("K", <<>>, <<>>))>>))
  >>

(* Shadow: expression ids 132..139
     { var o = 1; { var o = 2; print o; o = 4; print o; } print o; }
*)
Shadow ==
  <<
    Statement(Block(<<VarDecl("o", Literal(132, Number(1))), Statement(Block(<<VarDecl("o", Literal(133,
      Number(2))), Statement(PrintStmt(Var(134, "o"))), Statement(ExprStmt(Assign(137, "o", Literal(136,
      Number(4))))), Statement(PrintStmt(Var(138, "o")))>>)), Statement(PrintStmt(Var(139, "o")))>>))
  >>

(* GlobalRedeclare: expression ids 140..145
     var x = 1;
     var x = 2;
     print x;
     fun x() { return 0; }
     print x;
*)
GlobalRedeclare ==
  <<
    VarDecl("x", Literal(140, Number(1))),
    VarDecl("x", Literal(141, Number(2))),
    Statement(PrintStmt(Var(142, "x"))),
    Statement(FunctionDecl(FunctionStmt("x", <<>>, <<Statement(Return(Literal(144, Number(0))))>>))),
    Statement(PrintStmt(Var(145, "x")))
  >>

(* ReturnNested: expression ids 146..170
     fun find(n) { var i = 0; while (i < n) { if (i == 1) { { return i; } print "after return"; } i = i + 1; } print "not found"; return -1; }
     print find(3);
     print find(0);
*)
ReturnNested ==
  <<
    Statement(FunctionDecl(FunctionStmt("find", <<"n">>, <<VarDecl("i", Literal(146, Number(0))),
      Statement(While(Binary(149, Var(147, "i"), "Less", Var(148, "n")), Block(<<Statement(If(Binary(152,
      Var(150, "i"), "EqualEqual", Literal(151, Number(1))), Block(<<Statement(Block(<<Statement(Return(Var(154,
      "i")))>>)), Statement(PrintStmt(Literal(155, String("after return"))))>>), <<>>)), Statement(ExprStmt(Assign(160,
      "i", Binary(159, Var(157, "i"), "Plus", Literal(158, Number(1))))))>>))), Statement(PrintStmt(Literal(161,
      String("not found")))), Statement(Return(Unary(163, "Minus", Literal(164, Number(1)))))>>))),
    Statement(PrintStmt(Call(167, Var(165, "find"), <<Literal(166, Number(3))>>))),
    Statement(PrintStmt(Call(170, Var(168, "find"), <<Literal(169, Number(0))>>)))
  >>

(* ReturnInFor: expression ids 171..191
     fun first(n) { for (var k = 0; k < n; k = k + 1) { if (k == 0) return "first"; print k; } }
     print first(2);
     print first(0);
*)
ReturnInFor ==
  <<
    Statement(FunctionDecl(FunctionStmt("first", <<"n">>, <<Statement(Block(<<VarDecl("k", Literal(171,
      Number(0))), Statement(While(Binary(174, Var(172, "k"), "Less", Var(173, "n")), Block(<<Statement(Block(<<Statement(If(Binary(182,
      Var(180, "k"), "EqualEqual", Literal(181, Number(0))), Return(Literal(184, String("first"))),
      <<>>)), Statement(PrintStmt(Var(185, "k")))>>)), Statement(ExprStmt(Assign(179, "k", Binary(178,
      Var(176, "k"), "Plus", Literal(177, Number(1))))))>>)))>>))>>))),
    Statement(PrintStmt(Call(188, Var(186, "first"), <<Literal(187, Number(2))>>))),
    Statement(PrintStmt(Call(191, Var(189, "first"), <<Literal(190, Number(0))>>)))
  >>

(* SuperChain: expression ids 192..217
     class A { greet() { print "A"; print this.name; } }
     class B < A { greet() { print "B"; super.greet(); } }
     class C < B { }
     var c = C();
     c.name = "c";
     c.greet();
     var b = B();
     b.name = "b";
     b.greet();
*)
SuperChain ==
  <<
    Statement(ClassDecl("A", <<FunctionStmt("greet", <<>>, <<Statement(PrintStmt(Literal(192, String("A")))),
      Statement(PrintStmt(Get(194, "name", This(193))))>>)>>, <<>>)),
    Statement(ClassDecl("B", <<FunctionStmt("greet", <<>>, <<Statement(PrintStmt(Literal(196, String("B")))),
      Statement(ExprStmt(Call(198, Super(197, "greet"), <<>>)))>>)>>, <<Var(195, "A")>>)),
    Statement(ClassDecl("C", <<>>, <<Var(199, "B")>>)),
    VarDecl("c", Call(201, Var(200, "C"), <<>>)),
    Statement(ExprStmt(Set(205, Var(202, "c"), "name", Literal(204, String("c"))))),
    Statement(ExprStmt(Call(208, Get(207, "greet", Var(206, "c")), <<>>))),
    VarDecl("b", Call(210, Var(209, "B"), <<>>)),
    Statement(ExprStmt(Set(214, Var(211, "b"), "name", Literal(213, String("b"))))),
    Statement(ExprStmt(Call(217, Get(216, "greet", Var(215, "b")), <<>>)))
  >>

(* FieldShadowsMethod: expression ids 218..236
     class T { m() { return "method"; } }
     class U < T { }
     var t1 = U();
     var t2 = U();
     print t1.m();
     t1.m = "field";
     print t1.m;
     print t2.m();
*)
FieldShadowsMethod ==
  <<
    Statement(ClassDecl("T", <<FunctionStmt("m", <<>>, <<Statement(Return(Literal(219, String("method"))))>>)>>,
      <<>>)),
    Statement(ClassDecl("U", <<>>, <<Var(220, "T")>>)),
    VarDecl("t1", Call(222, Var(221, "U"), <<>>)),
    VarDecl("t2", Call(224, Var(223, "U"), <<>>)),
    Statement(PrintStmt(Call(227, Get(226, "m", Var(225, "t1")), <<>>))),
    Statement(ExprStmt(Set(231, Var(228, "t1"), "m", Literal(230, String("field"))))),
    Statement(PrintStmt(Get(233, "m", Var(232, "t1")))),
    Statement(PrintStmt(Call(236, Get(235, "m", Var(234, "t2")), <<>>)))
  >>

(* ClockElapsed: expression ids 237..247
     var t0 = clock();
     var t1 = clock();
     print t1 - t0;
     print clock() >= t1;
*)
ClockElapsed ==
  <<
    VarDecl("t0", Call(238, Var(237, "clock"), <<>>)),
    VarDecl("t1", Call(240, Var(239, "clock"), <<>>)),
    Statement(PrintStmt(Binary(243, Var(241, "t1"), "Minus", Var(242, "t0")))),
    Statement(PrintStmt(Binary(247, Call(245, Var(244, "clock"), <<>>), "GreaterEqual", Var(246, "t1"))))
  >>

(* NoInitZeroArgs: expression ids 248..254
     class Plain { hello() { return "hello"; } }
     var p = Plain();
     print p.hello();
*)
NoInitZeroArgs ==
  <<
    Statement(ClassDecl("Plain", <<FunctionStmt("hello", <<>>, <<Statement(Return(Literal(249, String("hello"))))>>)>>,
      <<>>)),
    VarDecl("p", Call(251, Var(250, "Plain"), <<>>)),
    Statement(PrintStmt(Call(254, Get(253, "hello", Var(252, "p")), <<>>)))
  >>

(* NoInitOneArg: expression ids 255..261
     class Plain { hello() { return "hello"; } }
     print "before";
     var p = Plain(1);
     print "after";
*)
NoInitOneArg ==
  <<
    Statement(ClassDecl("Plain", <<FunctionStmt("hello", <<>>, <<Statement(Return(Literal(256, String("hello"))))>>)>>,
      <<>>)),
    Statement(PrintStmt(Literal(257, String("before")))),
    VarDecl("p", Call(260, Var(258, "Plain"), <<Literal(259, Number(1))>>)),
    Statement(PrintStmt(Literal(261, String("after"))))
  >>

(* InheritedInitOneArg: expression ids 262..271
     class Base { init(x) { this.x = x; } }
     class Derived < Base { }
     var d = Derived(7);
     print d.x;
*)
InheritedInitOneArg ==
  <<
    Statement(ClassDecl("Base", <<FunctionStmt("init", <<"x">>, <<Statement(ExprStmt(Set(265, This(262),
      "x", Var(264, "x"))))>>)>>, <<>>)),
    Statement(ClassDecl("Derived", <<>>, <<Var(266, "Base")>>)),
    VarDecl("d", Call(269, Var(267, "Derived"), <<Literal(268, Number(7))>>)),
    Statement(PrintStmt(Get(271, "x", Var(270, "d"))))
  >>

(* InheritedInitZeroArgs: expression ids 272..280
     class Base { init(x) { this.x = x; } }
     class Derived < Base { }
     print "before";
     var d = Derived();
     print "after";
*)
InheritedInitZeroArgs ==
  <<
    Statement(ClassDecl("Base", <<FunctionStmt("init", <<"x">>, <<Statement(ExprStmt(Set(275, This(272),
      "x", Var(274, "x"))))>>)>>, <<>>)),
    Statement(ClassDecl("Derived", <<>>, <<Var(276, "Base")>>)),
    Statement(PrintStmt(Literal(277, String("before")))),
    VarDecl("d", Call(279, Var(278, "Derived"), <<>>)),
    Statement(PrintStmt(Literal(280, String("after"))))
  >>

(* CallOrder: expression ids 281..298
     fun note(tag) { print tag; return tag; }
     fun two(a, b) { print a + b; }
     fun chooser() { print "callee"; return two; }
     chooser()(note("first"), note("second"));
*)
CallOrder ==
  <<
    Statement(FunctionDecl(FunctionStmt("note", <<"tag">>, <<Statement(PrintStmt(Var(281, "tag"))),
      Statement(Return(Var(283, "tag")))>>))),
    Statement(FunctionDecl(FunctionStmt("two", <<"a", "b">>, <<Statement(PrintStmt(Binary(286, Var(284,
      "a"), "Plus", Var(285, "b"))))>>))),
    Statement(FunctionDecl(FunctionStmt("chooser", <<>>, <<Statement(PrintStmt(Literal(287, String("callee")))),
      Statement(Return(Var(289, "two")))>>))),
    Statement(ExprStmt(Call(298, Call(291, Var(290, "chooser"), <<>>), <<Call(294, Var(292, "note"),
      <<Literal(293, String("first"))>>), Call(297, Var(295, "note"), <<Literal(296, String("second"))>>)>>)))
  >>

(* CallNonCallable: expression ids 299..307
     fun note(tag) { print tag; return tag; }
     "text"(note("arg"));
     print "after";
*)
CallNonCallable ==
  <<
    Statement(FunctionDecl(FunctionStmt("note", <<"tag">>, <<Statement(PrintStmt(Var(299, "tag"))),
      Statement(Return(Var(301, "tag")))>>))),
    Statement(ExprStmt(Call(306, Literal(302, String("text")), <<Call(305, Var(303, "note"), <<Literal(304,
      String("arg"))>>)>>))),
    Statement(PrintStmt(Literal(307, String("after"))))
  >>

(* CallArityMismatch: expression ids 308..320
     fun note(tag) { print tag; return tag; }
     fun one(a) { print "body"; }
     one(note("first"), note("second"));
     print "after";
*)
CallArityMismatch ==
  <<
    Statement(FunctionDecl(FunctionStmt("note", <<"tag">>, <<Statement(PrintStmt(Var(308, "tag"))),
      Statement(Return(Var(310, "tag")))>>))),
    Statement(FunctionDecl(FunctionStmt("one", <<"a">>, <<Statement(PrintStmt(Literal(311, String("body"))))>>))),
    Statement(ExprStmt(Call(319, Var(312, "one"), <<Call(315, Var(313, "note"), <<Literal(314, String("first"))>>),
      Call(318, Var(316, "note"), <<Literal(317, String("second"))>>)>>))),
    Statement(PrintStmt(Literal(320, String("after"))))
  >>

(* ConstructArityMismatch: expression ids 321..328
     class Point { init(x) { print "init"; this.x = x; } }
     var p = Point();
     print "after";
*)
ConstructArityMismatch ==
  <<
    Statement(ClassDecl("Point", <<FunctionStmt("init", <<"x">>, <<Statement(PrintStmt(Literal(321,
      String("init")))), Statement(ExprStmt(Set(325, This(322), "x", Var(324, "x"))))>>)>>, <<>>)),
    VarDecl("p", Call(327, Var(326, "Point"), <<>>)),
    Statement(PrintStmt(Literal(328, String("after"))))
  >>

(* BoundMethods: expression ids 329..372
     class Person { name() { return this.label; } }
     var ann = Person();
     ann.label = "ann";
     var bob = Person();
     bob.label = "bob";
     var m1 = ann.name;
     var m2 = bob.name;
     var holder = Person();
     holder.label = "holder";
     holder.get = m1;
     fun apply(fn) { return fn(); }
     print m1();
     print m2();
     print apply(m1);
     print holder.get();
     print m1();
*)
BoundMethods ==
  <<
    Statement(ClassDecl("Person", <<FunctionStmt("name", <<>>, <<Statement(Return(Get(331, "label",
      This(330))))>>)>>, <<>>)),
    VarDecl("ann", Call(333, Var(332, "Person"), <<>>)),
    Statement(ExprStmt(Set(337, Var(334, "ann"), "label", Literal(336, String("ann"))))),
    VarDecl("bob", Call(339, Var(338, "Person"), <<>>)),
    Statement(ExprStmt(Set(343, Var(340, "bob"), "label", Literal(342, String("bob"))))),
    VarDecl("m1", Get(345, "name", Var(344, "ann"))),
    VarDecl("m2", Get(347, "name", Var(346, "bob"))),
    VarDecl("holder", Call(349, Var(348, "Person"), <<>>)),
    Statement(ExprStmt(Set(353, Var(350, "holder"), "label", Literal(352, String("holder"))))),
    Statement(ExprStmt(Set(357, Var(354, "holder"), "get", Var(356, "m1")))),
    Statement(FunctionDecl(FunctionStmt("apply", <<"fn">>, <<Statement(Return(Call(360, Var(359, "fn"),
      <<>>)))>>))),
    Statement(PrintStmt(Call(362, Var(361, "m1"), <<>>))),
    Statement(PrintStmt(Call(364, Var(363, "m2"), <<>>))),
    Statement(PrintStmt(Call(367, Var(365, "apply"), <<Var(366, "m1")>>))),
    Statement(PrintStmt(Call(370, Get(369, "get", Var(368, "holder")), <<>>))),
    Statement(PrintStmt(Call(372, Var(371, "m1"), <<>>)))
  >>

(* MethodLookup: expression ids 373..403
     class A { greet() { return "A.greet"; } only() { return "A.only"; } }
     class B < A { greet() { return "B.greet"; } }
     class C < B { }
     var b = B();
     var c = C();
     print b.greet();
     print b.only();
     print c.greet();
     print c.only();
     print A().greet();
     print c.missing;
     print "after";
*)
MethodLookup ==
  <<
    Statement(ClassDecl("A", <<FunctionStmt("greet", <<>>, <<Statement(Return(Literal(374, String("A.greet"))))>>),
      FunctionStmt("only", <<>>, <<Statement(Return(Literal(376, String("A.only"))))>>)>>, <<>>)),
    Statement(ClassDecl("B", <<FunctionStmt("greet", <<>>, <<Statement(Return(Literal(379, String("B.greet"))))>>)>>,
      <<Var(377, "A")>>)),
    Statement(ClassDecl("C", <<>>, <<Var(380, "B")>>)),
    VarDecl("b", Call(382, Var(381, "B"), <<>>)),
    VarDecl("c", Call(384, Var(383, "C"), <<>>)),
    Statement(PrintStmt(Call(387, Get(386, "greet", Var(385, "b")), <<>>))),
    Statement(PrintStmt(Call(390, Get(389, "only", Var(388, "b")), <<>>))),
    Statement(PrintStmt(Call(393, Get(392, "greet", Var(391, "c")), <<>>))),
    Statement(PrintStmt(Call(396, Get(395, "only", Var(394, "c")), <<>>))),
    Statement(PrintStmt(Call(400, Get(399, "greet", Call(398, Var(397, "A"), <<>>)), <<>>))),
    Statement(PrintStmt(Get(402, "missing", Var(401, "c")))),
    Statement(PrintStmt(Literal(403, String("after"))))
  >>

(* Constructor: expression ids 404..447
     class Inner { init() { this.tag = "inner"; } }
     class Point { init(x, y) { this.x = x; this.inner = Inner(); this.y = y; this.x = x + 1; "ignored"; } }
     class Point3 < Point { }
     var p = Point3(1, 2);
     print p.x;
     print p.y;
     print p.inner.tag;
     var q = Point(5, 6);
     print q.x;
     print p.x;
*)
Constructor ==
  <<
    Statement(ClassDecl("Inner", <<FunctionStmt("init", <<>>, <<Statement(ExprStmt(Set(407, This(404),
      "tag", Literal(406, String("inner")))))>>)>>, <<>>)),
    Statement(ClassDecl("Point", <<FunctionStmt("init", <<"x", "y">>, <<Statement(ExprStmt(Set(411,
      This(408), "x", Var(410, "x")))), Statement(ExprStmt(Set(416, This(412), "inner", Call(415,
      Var(414, "Inner"), <<>>)))), Statement(ExprStmt(Set(420, This(417), "y", Var(419, "y")))), Statement(ExprStmt(Set(426,
      This(421), "x", Binary(425, Var(423, "x"), "Plus", Literal(424, Number(1)))))), Statement(ExprStmt(Literal(427,
      String("ignored"))))>>)>>, <<>>)),
    Statement(ClassDecl("Point3", <<>>, <<Var(428, "Point")>>)),
    VarDecl("p", Call(432, Var(429, "Point3"), <<Literal(430, Number(1)), Literal(431, Number(2))>>)),
    Statement(PrintStmt(Get(434, "x", Var(433, "p")))),
    Statement(PrintStmt(Get(436, "y", Var(435, "p")))),
    Statement(PrintStmt(Get(439, "tag", Get(438, "inner", Var(437, "p"))))),
    VarDecl("q", Call(443, Var(440, "Point"), <<Literal(441, Number(5)), Literal(442, Number(6))>>)),
    Statement(PrintStmt(Get(445, "x", Var(444, "q")))),
    Statement(PrintStmt(Get(447, "x", Var(446, "p"))))
  >>

(* InnermostWins: expression ids 448..454
     { var a = "outer"; { var a = "inner"; { var b = "b"; print a; print b; } print a; } print a; }
*)
InnermostWins ==
  <<
    Statement(Block(<<VarDecl("a", Literal(448, String("outer"))), Statement(Block(<<VarDecl("a",
      Literal(449, String("inner"))), Statement(Block(<<VarDecl("b", Literal(450, String("b"))), Statement(PrintStmt(Var(451,
      "a"))), Statement(PrintStmt(Var(452, "b")))>>)), Statement(PrintStmt(Var(453, "a")))>>)), Statement(PrintStmt(Var(454,
      "a")))>>))
  >>

(* ReturnTopLevel: expression ids 455..460
     fun early() { return 1; }
     print early();
     return 2;
*)
ReturnTopLevel ==
  <<
    Statement(FunctionDecl(FunctionStmt("early", <<>>, <<Statement(Return(Literal(456, Number(1))))>>))),
    Statement(PrintStmt(Call(458, Var(457, "early"), <<>>))),
    Statement(Return(Literal(460, Number(2))))
  >>

(* ReturnInInit: expression ids 461..464
     class Maker { init() { fun g() { return 1; } return 2; } }
*)
ReturnInInit ==
  <<
    Statement(ClassDecl("Maker", <<FunctionStmt("init", <<>>, <<Statement(FunctionDecl(FunctionStmt("g",
      <<>>, <<Statement(Return(Literal(462, Number(1))))>>))), Statement(Return(Literal(464, Number(2))))>>)>>,
      <<>>))
  >>

(* ThisOutside: expression ids 465..467
     class Owner { m() { return this; } }
     print this;
*)
ThisOutside ==
  <<
    Statement(ClassDecl("Owner", <<FunctionStmt("m", <<>>, <<Statement(Return(This(466)))>>)>>, <<>>)),
    Statement(PrintStmt(This(467)))
  >>

(* SuperNoSuperclass: expression ids 468..475
     class Root { n() { return 1; } }
     class Outer < Root { m() { class Inner { n() { return super.n(); } } return 1; } }
*)
SuperNoSuperclass ==
  <<
    Statement(ClassDecl("Root", <<FunctionStmt("n", <<>>, <<Statement(Return(Literal(469, Number(1))))>>)>>,
      <<>>)),
    Statement(ClassDecl("Outer", <<FunctionStmt("m", <<>>, <<Statement(ClassDecl("Inner", <<FunctionStmt("n",
      <<>>, <<Statement(Return(Call(473, Super(472, "n"), <<>>)))>>)>>, <<>>)), Statement(Return(Literal(475,
      Number(1))))>>)>>, <<Var(470, "Root")>>))
  >>

(* SuperOutside: expression ids 476..476
     print super.m;
*)
SuperOutside ==
  <<
    Statement(PrintStmt(Super(476, "m")))
  >>

(* SelfInherit: expression ids 477..477
     class Loop < Loop { }
*)
SelfInherit ==
  <<
    Statement(ClassDecl("Loop", <<>>, <<Var(477, "Loop")>>))
  >>

(* ContextAfterNested: expression ids 478..499
     class Top { hello() { return 1; } }
     class Sub < Top {
       init() {
         fun helper() { return 2; }
         class Inner { m() { return this; } }
         this.x = super.hello() + helper();
       }
       m() { { class Local { n() { return 3; } } } return super.hello; }
     }
     print Sub().x;
*)
ContextAfterNested ==
  <<
    Statement(ClassDecl("Top", <<FunctionStmt("hello", <<>>, <<Statement(Return(Literal(479, Number(1))))>>)>>,
      <<>>)),
    Statement(ClassDecl("Sub", <<FunctionStmt("init", <<>>, <<Statement(FunctionDecl(FunctionStmt("helper",
      <<>>, <<Statement(Return(Literal(482, Number(2))))>>))), Statement(ClassDecl("Inner", <<FunctionStmt("m",
      <<>>, <<Statement(Return(This(484)))>>)>>, <<>>)), Statement(ExprStmt(Set(492, This(485), "x",
      Binary(491, Call(488, Super(487, "hello"), <<>>), "Plus", Call(490, Var(489, "helper"), <<>>)))))>>),
      FunctionStmt("m", <<>>, <<Statement(Block(<<Statement(ClassDecl("Local", <<FunctionStmt("n",
      <<>>, <<Statement(Return(Literal(494, Number(3))))>>)>>, <<>>))>>)), Statement(Return(Super(496,
      "hello")))>>)>>, <<Var(480, "Top")>>)),
    Statement(PrintStmt(Get(499, "x", Call(498, Var(497, "Sub"), <<>>))))
  >>

(* OwnInitializer: expression ids 500..501
     { var a = 1; { var a = a; } }
*)
OwnInitializer ==
  <<
    Statement(Block(<<VarDecl("a", Literal(500, Number(1))), Statement(Block(<<VarDecl("a", Var(501,
      "a"))>>))>>))
  >>

(* GlobalOwnInitializer: expression ids 502..509
     var a = 1;
     var a = a + 1;
     print a;
     { var b = a; { var c = b; print c; } }
*)
GlobalOwnInitializer ==
  <<
    VarDecl("a", Literal(502, Number(1))),
    VarDecl("a", Binary(505, Var(503, "a"), "Plus", Literal(504, Number(1)))),
    Statement(PrintStmt(Var(506, "a"))),
    Statement(Block(<<VarDecl("b", Var(507, "a")), Statement(Block(<<VarDecl("c", Var(508, "b")),
      Statement(PrintStmt(Var(509, "c")))>>))>>))
  >>

(* GlobalOwnInitializerUndefined: expression ids 510..512
     print "before";
     var u = u;
     print "after";
*)
GlobalOwnInitializerUndefined ==
  <<
    Statement(PrintStmt(Literal(510, String("before")))),
    VarDecl("u", Var(511, "u")),
    Statement(PrintStmt(Literal(512, String("after"))))
  >>

(* References: expression ids 513..564
     class Registry { }
     var reg = Registry();
     class Box { init() { this.v = 0; reg.last = this; } bump() { this.v = this.v + 1; } }
     fun poke(b) { b.v = 10; }
     var one = Box();
     var two = Box();
     var alias = one;
     alias.v = 5;
     print one.v;
     poke(one);
     print alias.v;
     one.bump();
     print alias.v;
     Box().tag = 7;
     print reg.last.tag;
     print two.v;
*)
References ==
  <<
    Statement(ClassDecl("Registry", <<>>, <<>>)),
    VarDecl("reg", Call(514, Var(513, "Registry"), <<>>)),
    Statement(ClassDecl("Box", <<FunctionStmt("init", <<>>, <<Statement(ExprStmt(Set(518, This(515),
      "v", Literal(517, Number(0))))), Statement(ExprStmt(Set(522, Var(519, "reg"), "last", This(521))))>>),
      FunctionStmt("bump", <<>>, <<Statement(ExprStmt(Set(529, This(523), "v", Binary(528, Get(526,
      "v", This(525)), "Plus", Literal(527, Number(1))))))>>)>>, <<>>)),
    Statement(FunctionDecl(FunctionStmt("poke", <<"b">>, <<Statement(ExprStmt(Set(533, Var(530, "b"),
      "v", Literal(532, Number(10)))))>>))),
    VarDecl("one", Call(535, Var(534, "Box"), <<>>)),
    VarDecl("two", Call(537, Var(536, "Box"), <<>>)),
    VarDecl("alias", Var(538, "one")),
    Statement(ExprStmt(Set(542, Var(539, "alias"), "v", Literal(541, Number(5))))),
    Statement(PrintStmt(Get(544, "v", Var(543, "one")))),
    Statement(ExprStmt(Call(547, Var(545, "poke"), <<Var(546, "one")>>))),
    Statement(PrintStmt(Get(549, "v", Var(548, "alias")))),
    Statement(ExprStmt(Call(552, Get(551, "bump", Var(550, "one")), <<>>))),
    Statement(PrintStmt(Get(554, "v", Var(553, "alias")))),
    Statement(ExprStmt(Set(559, Call(556, Var(555, "Box"), <<>>), "tag", Literal(558, Number(7))))),
    Statement(PrintStmt(Get(562, "tag", Get(561, "last", Var(560, "reg"))))),
    Statement(PrintStmt(Get(564, "v", Var(563, "two"))))
  >>

(* ImplicitResult: expression ids 565..600
     fun expr() { 1 + 2; }
     fun empty() { }
     fun withVar() { 1; var x = 5; }
     fun withPrint() { 1; print "p"; }
     fun withWhile() { 1; while (false) { 2; } }
     fun withFun() { 1; fun inner() { } }
     fun withClass() { 1; class Inner { } }
     class Thing { init() { this.n = 4; 7; } }
     print expr();
     print empty();
     print withVar();
     print withPrint();
     print withWhile();
     print withFun();
     print withClass();
     print Thing().init().n;
*)
ImplicitResult ==
  <<
    Statement(FunctionDecl(FunctionStmt("expr", <<>>, <<Statement(ExprStmt(Binary(567, Literal(565,
      Number(1)), "Plus", Literal(566, Number(2)))))>>))),
    Statement(FunctionDecl(FunctionStmt("empty", <<>>, <<>>))),
    Statement(FunctionDecl(FunctionStmt("withVar", <<>>, <<Statement(ExprStmt(Literal(568, Number(1)))),
      VarDecl("x", Literal(569, Number(5)))>>))),
    Statement(FunctionDecl(FunctionStmt("withPrint", <<>>, <<Statement(ExprStmt(Literal(570, Number(1)))),
      Statement(PrintStmt(Literal(571, String("p"))))>>))),
    Statement(FunctionDecl(FunctionStmt("withWhile", <<>>, <<Statement(ExprStmt(Literal(572, Number(1)))),
      Statement(While(Literal(573, Boolean(FALSE)), Block(<<Statement(ExprStmt(Literal(574, Number(2))))>>)))>>))),
    Statement(FunctionDecl(FunctionStmt("withFun", <<>>, <<Statement(ExprStmt(Literal(575, Number(1)))),
      Statement(FunctionDecl(FunctionStmt("inner", <<>>, <<>>)))>>))),
    Statement(FunctionDecl(FunctionStmt("withClass", <<>>, <<Statement(ExprStmt(Literal(576, Number(1)))),
      Statement(ClassDecl("Inner", <<>>, <<>>))>>))),
    Statement(ClassDecl("Thing", <<FunctionStmt("init", <<>>, <<Statement(ExprStmt(Set(580, This(577),
      "n", Literal(579, Number(4))))), Statement(ExprStmt(Literal(581, Number(7))))>>)>>, <<>>)),
    Statement(PrintStmt(Call(583, Var(582, "expr"), <<>>))),
    Statement(PrintStmt(Call(585, Var(584, "empty"), <<>>))),
    Statement(PrintStmt(Call(587, Var(586, "withVar"), <<>>))),
    Statement(PrintStmt(Call(589, Var(588, "withPrint"), <<>>))),
    Statement(PrintStmt(Call(591, Var(590, "withWhile"), <<>>))),
    Statement(PrintStmt(Call(593, Var(592, "withFun"), <<>>))),
    Statement(PrintStmt(Call(595, Var(594, "withClass"), <<>>))),
    Statement(PrintStmt(Get(600, "n", Call(599, Get(598, "init", Call(597, Var(596, "Thing"), <<>>)),
      <<>>))))
  >>

Pool ==
  <<NestedScopes, AssignFromInner, NestedAssign, Counter,
    SetterGetter, GlobalFromLocal, GlobalFromGlobal, LateShadowAssign,
    AssignUndefined, AssignUndefinedLocal, ShowGlobal, ReadUndefined,
    GlobalTracksUpdate, RedeclareVar, RedeclareParam, RedeclareParamBody,
    RedeclareFun, RedeclareClass, Shadow, GlobalRedeclare,
    ReturnNested, ReturnInFor, SuperChain, FieldShadowsMethod,
    ClockElapsed, NoInitZeroArgs, NoInitOneArg, InheritedInitOneArg,
    InheritedInitZeroArgs, CallOrder, CallNonCallable, CallArityMismatch,
    ConstructArityMismatch, BoundMethods, MethodLookup, Constructor,
    InnermostWins, ReturnTopLevel, ReturnInInit, ThisOutside,
    SuperNoSuperclass, SuperOutside, SelfInherit, ContextAfterNested,
    OwnInitializer, GlobalOwnInitializer, GlobalOwnInitializerUndefined, References,
    ImplicitResult>>

\* The place of a fragment in the pool.
FragmentIndex(fragment) == CHOOSE i \in 1 .. Len(Pool) : Pool[i] = fragment

RECURSIVE Concat(_)
Concat(fs) == IF Len(fs) = 0 THEN <<>> ELSE Pool[Head(fs)] \o Concat(Tail(fs))

Programs == UNION {[1 .. n -> 1 .. Len(Pool)] : n \in 1 .. MaxFragments}

(***************************************************************************)
(* Generated operator programs: one operator, statement or call applied to *)
(* operands of every kind of value.  The operands are literals, negated    *)
(* literals and the names the prelude declares:                            *)
(*     fun f() { }  fun g() { }  class K { }  var i = K();  var j = K();   *)
(*     fun say(v) { print "right"; return v; }                             *)
(***************************************************************************)
OperandPrelude ==
  <<
    Statement(FunctionDecl(FunctionStmt("f", <<>>, <<>>))),
    Statement(FunctionDecl(FunctionStmt("g", <<>>, <<>>))),
    Statement(ClassDecl("K", <<>>, <<>>)),
    VarDecl("i", Call(1, Var(0, "K"), <<>>)),
    VarDecl("j", Call(3, Var(2, "K"), <<>>)),
    Statement(FunctionDecl(FunctionStmt("say", <<"v">>, <<Statement(PrintStmt(Literal(4, String("right")))),
      Statement(Return(Var(6, "v")))>>)))
  >>

\* An operand as written: a number literal (negated when n < 0), a string
\* literal, true, false, nil, or a name of the prelude.
Operand(form, n, s) == [form |-> form, n |-> n, s |-> s]
Operands ==
  {Operand("number", n, "") : n \in -MaxOperand .. MaxOperand}
  \cup {Operand("string", 0, s) : s \in {"a", "b"}}
  \cup {Operand(form, 0, "") : form \in {"true", "false", "nil"}}
  \cup {Operand("name", 0, s) : s \in {"f", "g", "K", "i", "j"}}

\* The expression of an operand, its ids allocated from `id` on.
OperandExpr(o, id) ==
  CASE o.form = "number" /\ o.n >= 0 -> Literal(id, Number(o.n))
    [] o.form = "number" /\ o.n < 0 -> Unary(id, "Minus", Literal(id + 1, Number(-o.n)))
    [] o.form = "string" -> Literal(id, String(o.s))
    [] o.form = "true" -> Literal(id, Boolean(TRUE))
    [] o.form = "false" -> Literal(id, Boolean(FALSE))
    [] o.form = "nil" -> Literal(id, Null)
    [] o.form = "name" -> Var(id, o.s)
OperandIds(o) == IF o.form = "number" /\ o.n < 0 THEN 2 ELSE 1

\* The kind of value an operand evaluates to.
OperandTag(o) ==
  CASE o.form = "number" -> "Number"
    [] o.form = "string" -> "String"
    [] o.form \in {"true", "false"} -> "Boolean"
    [] o.form = "nil" -> "Null"
    [] o.form = "name" /\ o.s \in {"f", "g"} -> "Callable"
    [] o.form = "name" /\ o.s = "K" -> "Class"
    [] o.form = "name" /\ o.s \in {"i", "j"} -> "ClassInstance"

BinaryOps ==
  {"Plus", "Minus", "Star", "Slash", "Less", "LessEqual", "Greater", "GreaterEqual",
   "EqualEqual", "BangEqual"}

PoolCase == [kind |-> "pool"]
NoOperand == Operand("nil", 0, "")
\*   print <left> <op> <right>;
BinaryCases ==
  {[kind |-> "binary", op |-> op, left |-> l, right |-> r] :
     op \in BinaryOps, l \in Operands, r \in Operands}
\*   print <left> and say(<right>);        print <left> or say(<right>);
LogicalCases ==
  {[kind |-> "logical", op |-> op, left |-> l, right |-> r] :
     op \in {"And", "Or"}, l \in Operands, r \in Operands}
\*   if (<left>) print "then"; else print "else";  print "after";
\*   if (<left>) print "then";  print "after";
IfCases ==
  {[kind |-> "if", op |-> op, left |-> l, right |-> NoOperand] :
     op \in {"Else", "NoElse"}, l \in Operands}
\*   var c = <left>;  while (c) { print "body"; c = false; }  print "after";
WhileCases ==
  {[kind |-> "while", op |-> "While", left |-> l, right |-> NoOperand] : l \in Operands}
\*   print -<left>;        print !<left>;
UnaryCases ==
  {[kind |-> "unary", op |-> op, left |-> l, right |-> NoOperand] :
     op \in {"Minus", "Bang"}, l \in Operands}
Cases == BinaryCases \cup LogicalCases \cup IfCases \cup WhileCases \cup UnaryCases

CaseProgram(c) ==
  LET left == OperandExpr(c.left, 7)
      l == 7 + OperandIds(c.left)
      r == l + OperandIds(c.right)
  IN OperandPrelude
     \o CASE c.kind = "binary" ->
              <<Statement(PrintStmt(Binary(r, left, c.op, OperandExpr(c.right, l))))>>
          [] c.kind = "logical" ->
              <<Statement(PrintStmt(
                  Logical(r + 2, left, c.op,
                          Call(r + 1, Var(l, "say"), <<OperandExpr(c.right, l + 1)>>))))>>
          [] c.kind = "if" ->
              <<Statement(If(left, PrintStmt(Literal(l, String("then"))),
                             IF c.op = "Else"
                             THEN <<PrintStmt(Literal(l + 1, String("else")))>>
                             ELSE <<>>)),
                Statement(PrintStmt(Literal(l + 2, String("after"))))>>
          [] c.kind = "unary" ->
              <<Statement(PrintStmt(Unary(7, c.op, OperandExpr(c.left, 8))))>>
          [] c.kind = "while" ->
              <<VarDecl("c", left),
                Statement(While(Var(l, "c"),
                  Block(<<Statement(PrintStmt(Literal(l + 1, String("body")))),
                          Statement(ExprStmt(Assign(l + 3, "c",
                                                    Literal(l + 2, Boolean(FALSE)))))>>))),
                Statement(PrintStmt(Literal(l + 4, String("after"))))>>

(***************************************************************************)
(* The run of main.rs::run_file.                                           *)
(***************************************************************************)
VARIABLES
  fragments,         \* the program: the fragments it is made of
  case,              \* the program, when it is a generated operator program
  pc,                \* "resolve", "interpret", "done", "static_error", "runtime_error"
  next,              \* the top-level declaration the current pass is at
  scopes,            \* Resolver.scopes
  current_function,  \* Resolver.current_function
  current_class,     \* Resolver.current_class
  locals,            \* Interpreter.locals
  envs,              \* the Environment records alive
  fields,            \* the instance field tables alive
  environment,       \* Interpreter.environment
  output,            \* what was written to stdout, line by line
  err,               \* the panic message that ended the run
  now,               \* the system clock, in seconds
  nact,              \* history: the number of function activations so far
  trace,             \* history: the events of the Interpreter
  frames,            \* history: the scope before and after each nested execution
  rtrace,            \* history: the declarations the Resolver saw
  rlog               \* history: what else the Resolver did

vars == <<fragments, case, pc, next, scopes, current_function, current_class, locals, envs,
          fields, environment, output, err, now, nact, trace, frames, rtrace,
          rlog>>

Program == IF case.kind = "pool" THEN Concat(fragments) ELSE CaseProgram(case)

\* How far the clock may move between two readings.
MaxTick == 1

\* Resolver::new(Interpreter::new())
Init ==
  /\ fragments \in Programs
  /\ case = PoolCase
  /\ pc = "resolve"
  /\ next = 1
  /\ scopes = <<>>
  /\ current_function = "None"
  /\ current_class = "None"
  /\ locals = EmptyMap
  /\ envs = <<[parent |-> 0, values |-> ("clock" :> ClockFn)]>>
  /\ fields = <<>>
  /\ environment = globals
  /\ output = <<>>
  /\ err = ""
  /\ now = 0
  /\ nact = 0
  /\ trace = <<>>
  /\ frames = <<>>
  /\ rtrace = <<>>
  /\ rlog = <<>>

ResolverState ==
  [scopes |-> scopes, current_function |-> current_function,
   current_class |-> current_class, locals |-> locals, err |-> "", rtrace |-> rtrace,
   rlog |-> rlog]

InterpreterState(tick) ==
  [envs |-> envs, fields |-> fields, environment |-> environment, locals |-> locals,
   output |-> output, err |-> "", depth |-> 0, now |-> now, tick |-> tick, act |-> 0,
   nact |-> nact, trace |-> trace, frames |-> frames]

\* One iteration of the loop of Resolver::resolve over the program.
ResolveDecl ==
  /\ pc = "resolve"
  /\ next <= Len(Program)
  /\ \E rs \in {resolve(ResolverState, <<Program[next]>>)} :
        /\ scopes' = rs.scopes
        /\ current_function' = rs.current_function
        /\ current_class' = rs.current_class
        /\ locals' = rs.locals
        /\ rtrace' = rs.rtrace
        /\ rlog' = rs.rlog
        /\ err' = rs.err
        /\ pc' = IF rs.err # "" THEN "static_error" ELSE pc
        /\ next' = IF rs.err # "" THEN next ELSE next + 1
  /\ UNCHANGED <<fragments, case, envs, fields, environment, output, now, nact, trace,
                 frames>>

\* Resolver::run returns the Interpreter; run_file calls interpret.
Interpret ==
  /\ pc = "resolve"
  /\ next > Len(Program)
  /\ pc' = "interpret"
  /\ next' = 1
  /\ UNCHANGED <<fragments, case, scopes, current_function, current_class, locals, envs,
                 fields, environment, output, err, now, nact, trace, frames, rtrace,
                 rlog>>

\* One iteration of the loop of Interpreter::interpret: let _ = self.execute(&decl).
ExecuteDecl ==
  /\ pc = "interpret"
  /\ next <= Len(Program)
  /\ \E tick \in 0 .. MaxTick :
       \E f \in {execute(InterpreterState(tick), Program[next])} :
          /\ envs' = f.st.envs
          /\ fields' = f.st.fields
          /\ environment' = f.st.environment
          /\ output' = f.st.output
          /\ now' = f.st.now
          /\ nact' = f.st.nact
          /\ trace' = f.st.trace
          /\ frames' = f.st.frames
          /\ err' = f.st.err
          /\ pc' = IF f.st.err # "" THEN "runtime_error" ELSE pc
          /\ next' = IF f.st.err # "" THEN next ELSE next + 1
  /\ UNCHANGED <<fragments, case, scopes, current_function, current_class, locals, rtrace,
                 rlog>>

\* interpret returns; run_file returns Ok(()).
Finish ==
  /\ pc = "interpret"
  /\ next > Len(Program)
  /\ pc' = "done"
  /\ UNCHANGED <<fragments, case, next, scopes, current_function, current_class, locals,
                 envs, fields, environment, output, err, now, nact, trace, frames,
                 rtrace, rlog>>

Next == ResolveDecl \/ Interpret \/ ExecuteDecl \/ Finish

Spec == Init /\ [][Next]_vars

\* The runs on the generated operator programs.
InitOperators ==
  /\ fragments = <<>>
  /\ case \in Cases
  /\ pc = "resolve"
  /\ next = 1
  /\ scopes = <<>>
  /\ current_function = "None"
  /\ current_class = "None"
  /\ locals = EmptyMap
  /\ envs = <<[parent |-> 0, values |-> ("clock" :> ClockFn)]>>
  /\ fields = <<>>
  /\ environment = globals
  /\ output = <<>>
  /\ err = ""
  /\ now = 0
  /\ nact = 0
  /\ trace = <<>>
  /\ frames = <<>>
  /\ rtrace = <<>>
  /\ rlog = <<>>

SpecOperators == InitOperators /\ [][Next]_vars

(***************************************************************************)
(* environment.rs on its own: one operation of Environment applied to a    *)
(* scope of an arbitrary tree of scopes.  Scope i binds some of the names  *)
(* to the number i, so that a value tells the scope it came from.          *)
(***************************************************************************)
Names == {"a", "b"}
BindingsOf(i) == UNION {[S -> {Number(i)}] : S \in SUBSET Names}
RECURSIVE Arenas(_)
Arenas(n) ==
  IF n = 0 THEN {<<>>}
  ELSE {Append(a, [parent |-> p, values |-> m]) :
          a \in Arenas(n - 1), p \in 0 .. n - 1, m \in BindingsOf(n)}

InitEnvironment ==
  /\ fragments = <<>>
  /\ case = [kind |-> "environment"]
  /\ pc = "environment"
  /\ next = 1
  /\ scopes = <<>>
  /\ current_function = "None"
  /\ current_class = "None"
  /\ locals = EmptyMap
  /\ envs \in UNION {Arenas(n) : n \in 1 .. MaxScopes}
  /\ fields = <<>>
  /\ environment = globals
  /\ output = <<>>
  /\ err = ""
  /\ now = 0
  /\ nact = 0
  /\ trace = <<>>
  /\ frames = <<>>
  /\ rtrace = <<>>
  /\ rlog = <<>>

\* The operation is over: what it was given, what it answered, and the scopes
\* before and after it.
Applied(op, env, name, value, result, after) ==
  /\ pc' = "applied"
  /\ envs' = after
  /\ trace' = <<[ev |-> op, env |-> env, name |-> name, value |-> value,
                 result |-> result, before |-> envs, after |-> after]>>
  /\ UNCHANGED <<fragments, case, next, scopes, current_function, current_class,
                 locals, fields, environment, output, err, now, nact, frames, rtrace,
                 rlog>>

\* env.borrow_mut().define(name, value)
EnvDefine ==
  /\ pc = "environment"
  /\ \E env \in 1 .. Len(envs), name \in Names :
        Applied("define", env, name, String("new"), <<>>,
                env_define(InterpreterState(0), env, name, String("new")).envs)

\* env.borrow().get(&name)
EnvGet ==
  /\ pc = "environment"
  /\ \E env \in 1 .. Len(envs), name \in Names :
        Applied("get", env, name, Null, env_get(InterpreterState(0), env, name), envs)

\* env.borrow().mutate(&name, value)
EnvMutate ==
  /\ pc = "environment"
  /\ \E env \in 1 .. Len(envs), name \in Names :
        \E m \in {env_mutate(InterpreterState(0), env, name, String("new"))} :
           Applied("mutate", env, name, String("new"), m.old, m.st.envs)

NextEnvironment == EnvDefine \/ EnvGet \/ EnvMutate

SpecEnvironment == InitEnvironment /\ [][NextEnvironment]_vars

(***************************************************************************)
(* Reading the history.                                                    *)
(***************************************************************************)
Events == 1 .. Len(trace)

\* The program is exactly this fragment of the pool.
Only(fragment) == fragments = <<FragmentIndex(fragment)>>

Max(S) == CHOOSE x \in S : \A y \in S : y <= x

\* Event e is a write the program text asks for to the binding of `name` in
\* `scope`: a declaration there, or an assignment whose own resolution (its
\* distance, or the global scope without one) designates that scope.
IsWrite(e, scope, name) ==
  \/ e.ev = "define" /\ e.scope = scope /\ e.name = name
  \/ e.ev = "assign" /\ e.target = scope /\ e.name = name

\* The writes to the binding event i is about that came before it.
WritesBefore(i, scope, name) == {j \in 1 .. i - 1 : IsWrite(trace[j], scope, name)}

\* Read event i yielded the value of the latest write to its binding.
ReadsLatest(i) ==
  LET e == trace[i]
      W == WritesBefore(i, e.scope, e.name)
  IN W # {} => ~e.fatal /\ e.value = trace[Max(W)].value

\* The scopes on the chain from `env` out to the global scope.
RECURSIVE EnvChain(_)
EnvChain(env) == IF env = 0 THEN {} ELSE {env} \cup EnvChain(envs[env].parent)

\* The "call" event that opened activation a.
CallOf(a) == trace[CHOOSE i \in Events : trace[i].ev = "call" /\ trace[i].act = a]

(***************************************************************************)
(* C1: a read of a local variable, from the scope that declares it or from *)
(* a scope nested in it, yields the value most recently written to the     *)
(* variable by its declaration or by an assignment to it, whatever the     *)
(* right-hand side of the assignment was.  The reads and writes here are   *)
(* those of one activation (no closure is involved).                       *)
(***************************************************************************)
C1_LocalReadYieldsLatestAssignment ==
  \A i \in Events :
    LET e == trace[i]
        W == IF e.ev = "read" THEN WritesBefore(i, e.scope, e.name) ELSE {}
    IN (e.ev = "read" /\ e.resolved /\ W # {} /\ trace[Max(W)].act = e.act)
         => ReadsLatest(i)

(***************************************************************************)
(* C2: a function captures its defining environment by reference: a read   *)
(* of a captured variable inside a call yields the latest value written to *)
(* the variable, by the enclosing code or by any closure over it (also by  *)
(* `captured = parameter`), and the counter closure returns 1, 2, 3.       *)
(***************************************************************************)
C2_ClosureObservesLaterAssignments ==
  /\ \A i \in Events :
       LET e == trace[i]
       IN (/\ e.ev = "read" /\ e.resolved /\ e.act > 0
           /\ e.scope \in EnvChain(CallOf(e.act).closure))
            => ReadsLatest(i)
  /\ (Only(Counter) /\ pc = "done") => output = <<"1", "2", "3">>

(***************************************************************************)
(* C3: an assignment that the resolver recorded distance d for stores its  *)
(* value in the scope exactly d links out from the current one (the        *)
(* distance of the assignment expression itself, not of its right-hand     *)
(* side) and changes or creates no binding in any other scope.             *)
(***************************************************************************)
C3_ResolvedAssignWritesAtOwnDistance ==
  \A i \in Events :
    LET e == trace[i]
    IN (e.ev = "assign" /\ e.resolved)
         => /\ ~e.fatal
            /\ e.stored
            /\ e.changed \subseteq {e.target}
            /\ e.created = {}

(***************************************************************************)
(* C4: an assignment without a recorded distance updates the binding in    *)
(* the global scope and no other scope, whatever the environment chain     *)
(* holds (a same-named local declared later on the chain included).        *)
(***************************************************************************)
C4_UnresolvedAssignWritesGlobal ==
  \A i \in Events :
    LET e == trace[i]
    IN (e.ev = "assign" /\ ~e.resolved /\ e.gdefined)
         => /\ ~e.fatal
            /\ e.stored
            /\ e.changed \subseteq {globals}
            /\ e.created = {}

(***************************************************************************)
(* C5: an assignment to a name that is defined nowhere is fatal: the run   *)
(* stops there, nothing executes after it and no binding is created.       *)
(***************************************************************************)
C5_AssignUndefinedIsFatal ==
  \A i \in Events :
    LET e == trace[i]
    IN (e.ev = "assign" /\ ~e.resolved /\ ~e.visible)
         => /\ e.fatal
            /\ e.created = {}
            /\ i = Len(trace)
            /\ pc = "runtime_error"

(***************************************************************************)
(* C6: a variable read without a recorded distance is looked up by name in *)
(* the global scope only, as it is at the time of the read: it yields the  *)
(* global's value whatever the scopes of the current chain hold (show()    *)
(* prints "global" before and after the block declares its own `a`), and   *)
(* it is fatal when the global scope has no such name.                     *)
(***************************************************************************)
C6_UnresolvedReadIsGlobalLookup ==
  /\ \A i \in Events :
       LET e == trace[i]
       IN (e.ev = "read" /\ ~e.resolved)
            => IF e.gdefined
               THEN ~e.fatal /\ e.value = e.gvalue
               ELSE e.fatal /\ i = Len(trace) /\ pc = "runtime_error"
  /\ (Only(ShowGlobal) /\ pc = "done") => output = <<"global", "global">>

\* An unresolved read in a scope whose chain holds a later same-named local.
C6_ReadPastLateLocal ==
  \E i \in Events : \E j \in Events :
    /\ i < j
    /\ trace[i].ev = "define" /\ trace[i].scope # globals
    /\ trace[j].ev = "read" /\ ~trace[j].resolved /\ ~trace[j].fatal
    /\ trace[j].name = trace[i].name
    /\ trace[i].scope \in EnvChain(trace[j].env)
    /\ trace[j].value # trace[i].value

(***************************************************************************)
(* C7: declaring a name (variable, function, class or parameter) a second  *)
(* time in the same non-global scope is a static error: resolution stops   *)
(* there and nothing is executed.  Declaring it again in a nested block is *)
(* legal (the inner reads see the inner variable, the outer one keeps its  *)
(* value), and so is redeclaring at the top level.                         *)
(***************************************************************************)
C7_RedeclareInLocalScopeIsStaticError ==
  /\ \A i \in 1 .. Len(rtrace) :
       LET e == rtrace[i]
       IN /\ e.fatal = e.dup
          /\ e.depth = 0 => ~e.fatal
          /\ e.fatal => /\ i = Len(rtrace)
                        /\ pc = "static_error"
                        /\ trace = <<>> /\ output = <<>>
  /\ (Only(Shadow) /\ pc = "done") => output = <<"2", "4", "1">>
  /\ (Only(GlobalRedeclare) /\ pc = "done") => output = <<"2", "<callable:0>">>

\* A second declaration in a local scope stopped the resolver.
C7_RedeclarationRejected ==
  /\ pc = "static_error"
  /\ \E i \in 1 .. Len(rtrace) : rtrace[i].dup /\ rtrace[i].fatal /\ rtrace[i].depth > 0

(***************************************************************************)
(* C8: once a `return` statement has executed in a function activation,    *)
(* at whatever depth of blocks, ifs and loops, nothing more happens in     *)
(* that activation: the next thing is the end of the call, and the call's  *)
(* result is exactly the value of the return expression.                   *)
(***************************************************************************)
C8_ReturnEndsTheActivation ==
  /\ \A i \in Events :
       trace[i].ev = "return"
         => /\ i < Len(trace)
            /\ trace[i + 1].ev = "call_end"
            /\ trace[i + 1].act = trace[i].act
            /\ trace[i + 1].returned
            /\ trace[i + 1].value = trace[i].value
            /\ \A j \in i + 2 .. Len(trace) : trace[j].act # trace[i].act
  /\ (Only(ReturnNested) /\ pc = "done") => output = <<"1", "not found", "-1">>
  /\ (Only(ReturnInFor) /\ pc = "done") => output = <<"first", "null">>

\* find(3) returned from the block inside the if inside the while loop.
C8_ReturnedFromNestedBlock ==
  /\ Only(ReturnNested)
  /\ \E i \in Events : \E j \in Events :
       /\ j < i
       /\ trace[i].ev = "return" /\ trace[i].value = Number(1)
       /\ trace[j].ev = "exec" /\ trace[j].stmt = "While" /\ trace[j].act = trace[i].act

\* The class whose declaration holds the method that activation a runs: the
\* class one of whose methods closes over the scope the bound method's `this`
\* scope hangs from.
DeclaringClass(a) ==
  LET scope == envs[CallOf(a).closure].parent
      d == CHOOSE i \in Events :
             /\ trace[i].ev = "define"
             /\ trace[i].value.t = "Class"
             /\ \E m \in DOMAIN trace[i].value.methods :
                  trace[i].value.methods[m].closure = scope
  IN trace[d].value

(***************************************************************************)
(* C9: `super.m` in a method declared in class B looks m up starting from  *)
(* the superclass named in B's declaration and binds what it finds to the  *)
(* current instance, whatever the class of that instance: on an instance   *)
(* of C < B < A, greet() runs B.greet and then A.greet, `this` being the   *)
(* C instance in both.                                                     *)
(***************************************************************************)
C9_SuperStartsAtDeclaredSuperclass ==
  /\ \A i \in Events :
       LET e == trace[i]
           B == DeclaringClass(e.act)
           A == B.superclass[1]
       IN e.ev = "super"
            => /\ e.superclass = A
               /\ e.this = envs[CallOf(e.act).closure].values["this"]
               /\ <<e.found>> = find_method(A, e.method)
               /\ e.value.decl = e.found.decl
               /\ envs[e.value.closure].parent = e.found.closure
               /\ envs[e.value.closure].values["this"] = e.this
  /\ (Only(SuperChain) /\ pc = "done") => output = <<"B", "A", "c", "B", "A", "b">>

\* super.greet evaluated in B.greet on an instance of C found A.greet.
C9_SuperOnSubclassInstance ==
  \E i \in Events :
    /\ trace[i].ev = "super"
    /\ trace[i].this.class.name = "C"
    /\ DeclaringClass(trace[i].act).name = "B"
    /\ trace[i].superclass.name = "A"

(***************************************************************************)
(* C10: property access looks in the instance's field table before the    *)
(* class's methods, and field assignment always writes the field table:    *)
(* after `instance.f = v`, f being a method name of the class (own or      *)
(* inherited), every later `instance.f` yields v, while an instance that   *)
(* was not assigned f still gets the method, bound to itself.              *)
(***************************************************************************)
SetsBefore(j) ==
  {i \in 1 .. j - 1 : /\ trace[j].ev \in {"get", "set"}
                      /\ trace[i].ev = "set"
                      /\ trace[i].instance = trace[j].instance
                      /\ trace[i].name = trace[j].name}

C10_FieldShadowsMethod ==
  \A j \in Events :
    LET e == trace[j]
        S == SetsBefore(j)
        method == find_method(e.class, e.name)
    IN /\ e.ev = "set" => e.name \in DOMAIN fields[e.instance]
       /\ (e.ev = "set" /\ \A k \in j + 1 .. Len(trace) : ~(j \in SetsBefore(k)))
            => fields[e.instance][e.name] = e.value
       /\ (e.ev = "get" /\ S # {}) => ~e.fatal /\ e.value = trace[Max(S)].value
       /\ (e.ev = "get" /\ S = {} /\ Len(method) > 0)
            => /\ ~e.fatal
               /\ e.value.t = "Callable"
               /\ e.value.decl = method[1].decl
               /\ envs[e.value.closure].values["this"].fields = e.instance

\* A field named like an inherited method was read back on the instance it was
\* set on, and the method was read on another instance afterwards.
C10_FieldReadBackOverMethod ==
  \E i \in Events : \E j \in Events : \E k \in Events :
    /\ i < j /\ j < k
    /\ trace[i].ev = "set" /\ trace[j].ev = "get" /\ trace[k].ev = "get"
    /\ i \in SetsBefore(j)
    /\ Len(find_method(trace[j].class, trace[j].name)) > 0
    /\ trace[j].value = trace[i].value
    /\ trace[k].name = trace[i].name /\ trace[k].instance # trace[i].instance
    /\ trace[k].value.t = "Callable"

(***************************************************************************)
(* Reading the history of calls.                                           *)
(***************************************************************************)
\* The classes on the superclass chain of a class, the class itself first.
RECURSIVE Ancestry(_)
Ancestry(class) ==
  <<class>> \o (IF Len(class.superclass) = 0 THEN <<>> ELSE Ancestry(class.superclass[1]))

\* The places on the chain of the classes whose declaration has a method `name`.
Declaring(class, name) ==
  {k \in 1 .. Len(Ancestry(class)) : name \in DOMAIN Ancestry(class)[k].methods}

CallSites == {k \in Events : trace[k].ev = "callsite"}
ClassCallSites == {k \in CallSites : trace[k].callee.t = "Class"}

\* The call at event k stopped the run on the argument count, and no instance
\* was made for it.
ArityFault(k) ==
  /\ k = Len(trace)
  /\ pc = "runtime_error"
  /\ err = "called fn/{arity} with {n_args}"
  /\ Len(fields) = trace[k].instances

\* The constructor call at event k went through: the instance was made.
Constructed(k) ==
  /\ ~(k = Len(trace) /\ err = "called fn/{arity} with {n_args}")
  /\ Len(fields) > trace[k].instances

(***************************************************************************)
(* C11, as stated: every class whose own declaration has no init takes     *)
(* zero constructor arguments (a call with zero arguments constructs, a    *)
(* call with one or more is a fatal arity error), also when a superclass   *)
(* declares an init with parameters.                                       *)
(***************************************************************************)
C11_NoOwnInitTakesNoArguments ==
  \A k \in ClassCallSites :
     LET e == trace[k]
     IN "init" \notin DOMAIN e.callee.methods
        => IF Len(e.arguments) = 0 THEN Constructed(k) ELSE ArityFault(k)

(***************************************************************************)
(* C11, amended: a class for which no init is declared anywhere on its     *)
(* superclass chain takes zero constructor arguments: a call with zero     *)
(* arguments constructs, a call with one or more is a fatal arity error.   *)
(* A class whose own declaration has no init but whose chain declares one  *)
(* takes the parameter count of the nearest inherited init instead.        *)
(***************************************************************************)
C11_NoInitOnChainTakesNoArguments ==
  \A k \in ClassCallSites :
     LET e == trace[k]
         D == Declaring(e.callee, "init")
         expected == IF D = {} THEN 0
                     ELSE Len(Ancestry(e.callee)[CHOOSE d \in D : \A x \in D : d <= x]
                                .methods["init"].decl.parameters)
     IN "init" \notin DOMAIN e.callee.methods
        => IF Len(e.arguments) = expected THEN Constructed(k) ELSE ArityFault(k)

\* A class with no init anywhere was called with an argument and the run stopped;
C11_ExtraArgumentRejected ==
  \E k \in ClassCallSites :
     /\ Declaring(trace[k].callee, "init") = {}
     /\ Len(trace[k].arguments) = 1
     /\ ArityFault(k)
     /\ output = <<"before">>

(***************************************************************************)
(* Reading the runs of the generated operator programs.                    *)
(***************************************************************************)
Ended == pc \in {"done", "runtime_error"}
BinaryEvents == {k \in Events : trace[k].ev = "binary"}
Arithmetic == {"Plus", "Minus", "Star", "Slash"}
Comparison == {"Less", "LessEqual", "Greater", "GreaterEqual"}
BooleanText(b) == IF b THEN "true" ELSE "false"
\* The run printed nothing and stopped in the operator, on the operand types.
TypeFault ==
  /\ pc = "runtime_error"
  /\ err = "invalid operator. This isn't javascript"
  /\ output = <<>>
  /\ BinaryEvents = {}
\* The operator yielded value v, which was printed as `text`, and the run went on.
Yielded(v, text) ==
  /\ pc = "done"
  /\ \E k \in BinaryEvents : BinaryEvents = {k} /\ trace[k].value = v
  /\ output = <<text>>

Equality == {"EqualEqual", "BangEqual"}
Comparable == {"String", "Number", "Boolean", "Null"}
\* The operands of the equality case as written are the same value.
SameLiteral == case.left = case.right

(***************************************************************************)
(* C13: == and != never fault on operands of different tags: == yields     *)
(* false and != yields true.  On two Strings, two Numbers or two Booleans  *)
(* they compare the payloads, nil equals nil, and != is the negation of    *)
(* ==.                                                                     *)
(***************************************************************************)
C13_EqualityOfPlainValues ==
  (/\ case.kind = "binary" /\ case.op \in Equality /\ Ended
   /\ \/ OperandTag(case.left) # OperandTag(case.right)
      \/ OperandTag(case.left) \in Comparable) =>
    LET equal == OperandTag(case.left) = OperandTag(case.right) /\ SameLiteral
        yield == IF case.op = "EqualEqual" THEN equal ELSE ~equal
    IN Yielded(Boolean(yield), BooleanText(yield))

\* 1 == "a" printed false, and the run went on.
C13_NumberIsNotString ==
  /\ case = [kind |-> "binary", op |-> "EqualEqual", left |-> Operand("number", 1, ""),
              right |-> Operand("string", 0, "a")]
  /\ Yielded(Boolean(FALSE), "false")

(***************************************************************************)
(* C14: == or != on two callables, on two classes or on two instances is   *)
(* a fatal runtime error.                                                  *)
(***************************************************************************)
C14_EqualityOfObjectsIsFatal ==
  (/\ case.kind = "binary" /\ case.op \in Equality /\ Ended
   /\ OperandTag(case.left) = OperandTag(case.right)
   /\ OperandTag(case.left) \in {"Callable", "Class", "ClassInstance"}) =>
    pc = "runtime_error"

\* What the condition or left operand of the case is, when it is a Boolean.
LeftIsBoolean == OperandTag(case.left) = "Boolean"
LeftIsTrue == case.left.form = "true"
\* The run stopped on the condition before anything was printed.
ConditionFault(message) ==
  /\ pc = "runtime_error"
  /\ err = message
  /\ output = <<>>

(***************************************************************************)
(* C15: only Booleans have truthiness.  An if or a while whose condition   *)
(* is not a Boolean is fatal and executes neither branch nor body; a       *)
(* logical and / or whose left operand is not a Boolean is fatal too.  An  *)
(* if whose condition is a Boolean executes exactly one branch: the then   *)
(* branch when true, the else branch when false, nothing when false and    *)
(* there is no else.                                                       *)
(***************************************************************************)
C15_OnlyBooleansAreConditions ==
  Ended =>
    CASE case.kind = "if" ->
           IF ~LeftIsBoolean THEN ConditionFault("if condition can only be boolean")
           ELSE /\ pc = "done"
                /\ output = IF LeftIsTrue THEN <<"then", "after">>
                            ELSE IF case.op = "Else" THEN <<"else", "after">>
                            ELSE <<"after">>
      [] case.kind = "while" ->
           IF ~LeftIsBoolean THEN ConditionFault("while condition can only be boolean")
           ELSE /\ pc = "done"
                /\ output = IF LeftIsTrue THEN <<"body", "after">> ELSE <<"after">>
      [] case.kind = "logical" ->
           ~LeftIsBoolean => ConditionFault("invalid non-boolean value evaluated to truthy")
      [] OTHER -> TRUE

\* if (nil) ... else ... stopped the run with neither branch executed.
C15_NilConditionRejected ==
  /\ case = [kind |-> "if", op |-> "Else", left |-> NoOperand, right |-> NoOperand]
  /\ ConditionFault("if condition can only be boolean")

\* The value an operand of the case evaluates to: the literal's, or the value
\* the prelude bound to the name.
OperandValue(o) ==
  CASE o.form = "number" -> Number(o.n)
    [] o.form = "string" -> String(o.s)
    [] o.form = "true" -> Boolean(TRUE)
    [] o.form = "false" -> Boolean(FALSE)
    [] o.form = "nil" -> Null
    [] o.form = "name" -> envs[globals].values[o.s]

(***************************************************************************)
(* C16: a or b yields a without evaluating b when a is true, and otherwise *)
(* evaluates b and yields its value as it is; a and b yields a without     *)
(* evaluating b when a is false, and otherwise evaluates b and yields its  *)
(* value as it is.  The value of b need not be a Boolean.  Here b is       *)
(* say(<right>), which prints "right" when it is evaluated.                *)
(***************************************************************************)
C16_LogicalShortCircuits ==
  (case.kind = "logical" /\ LeftIsBoolean /\ Ended) =>
    /\ pc = "done"
    /\ output = IF LeftIsTrue = (case.op = "Or")
                THEN <<BooleanText(LeftIsTrue)>>
                ELSE <<"right", Display(OperandValue(case.right))>>

\* true and say("a") printed right and then a: the right operand's value, no Boolean.
C16_AndYieldsRightOperand ==
  /\ case = [kind |-> "logical", op |-> "And", left |-> Operand("true", 0, ""),
              right |-> Operand("string", 0, "a")]
  /\ pc = "done"
  /\ output = <<"right", "a">>

\* The latest event before k, of the activation of k, that evaluated expression id.
Evaluated(k, kind, id) ==
  {j \in 1 .. k - 1 :
     trace[j].ev = kind /\ trace[j].act = trace[k].act /\ trace[j].id = id}

\* The argument count a callable or class value asks for.
ExpectedArity(v) ==
  IF v.t = "Class"
  THEN LET D == Declaring(v, "init")
       IN IF D = {} THEN 0
          ELSE Len(Ancestry(v)[CHOOSE d \in D : \A x \in D : d <= x]
                     .methods["init"].decl.parameters)
  ELSE IF v.builtin THEN 0
  ELSE Len(v.decl.parameters)

\* The call at event k stopped the run on its callee, with nothing done since
\* the arguments were evaluated.
NotCallableFault(k) ==
  /\ k = Len(trace)
  /\ pc = "runtime_error"
  /\ err = "is not callable"
  /\ output = trace[k].output
  /\ Len(fields) = trace[k].instances

(***************************************************************************)
(* C17: a call evaluates the callee first, then the arguments from left to *)
(* right; then the callee must be a callable or a class, else the call is  *)
(* fatal; then the argument count is compared with the callee's arity, and *)
(* only when they are equal is the callee invoked.  On a mismatch the      *)
(* fatal error comes before any statement of the callee's body executes    *)
(* and before any instance is made.                                        *)
(***************************************************************************)
C17_CallEvaluationOrder ==
  \A k \in CallSites :
     LET e == trace[k]
         n == Len(e.args)
         Callee == Evaluated(k, "callee", e.id)
         Arg(i) == Evaluated(k, "arg", e.args[i])
         at == [i \in 0 .. n |-> IF i = 0 THEN Max(Callee) ELSE Max(Arg(i))]
     IN /\ Callee # {}
        /\ \A i \in 1 .. n : Arg(i) # {}
        /\ trace[at[0]].value = e.callee
        /\ \A i \in 1 .. n :
              /\ at[i - 1] < at[i]
              /\ trace[at[i]].index = i
              /\ trace[at[i]].value = e.arguments[i]
        /\ IF e.callee.t \notin {"Callable", "Class"} THEN NotCallableFault(k)
           ELSE IF ExpectedArity(e.callee) # n
           THEN ArityFault(k) /\ output = e.output
           ELSE /\ ~(k = Len(trace)
                     /\ err \in {"is not callable", "called fn/{arity} with {n_args}"})
                /\ (e.callee.t = "Class") => Len(fields) > e.instances
                /\ (e.callee.t = "Callable" /\ ~e.callee.builtin /\ k < Len(trace))
                     => trace[k + 1].ev = "call" /\ trace[k + 1].caller = e.act

\* one(note("first"), note("second")) with one/1: both arguments were evaluated,
\* then the call stopped the run before the body of one.
C17_ArityCheckedAfterArguments ==
  \E k \in CallSites :
     /\ trace[k].callee.t = "Callable"
     /\ Len(trace[k].arguments) = 2
     /\ ArityFault(k)
     /\ output = <<"first", "second">>

BindEvents == {k \in Events : trace[k].ev = "bind"}

(***************************************************************************)
(* C18: reading a method off an instance yields a new bound function whose *)
(* `this` is that instance, wherever the function is later stored or       *)
(* called.  The binding makes a fresh scope on top of the method's closure *)
(* and changes nothing else: not the method the class holds, not the       *)
(* closure scope, not a function bound earlier; so two bindings of one     *)
(* method keep their own `this`.                                           *)
(***************************************************************************)
C18_BindingIsFresh ==
  \A k \in BindEvents :
     LET b == trace[k]
     IN \* one scope more, holding `this` alone, on top of the method's closure
        /\ b.env = Len(b.before) + 1
        /\ b.after = Append(b.before, [parent |-> b.method.closure,
                                       values |-> ("this" :> b.instance)])
        /\ b.value = [b.method EXCEPT !.closure = b.env]
        \* the binding stays what it was
        /\ envs[b.env].values["this"] = b.instance
        /\ envs[b.env].parent = b.method.closure
        \* a call of the bound function, from anywhere, reads this instance
        /\ \A i \in Events :
              (/\ trace[i].ev = "read" /\ trace[i].name = "this"
               /\ trace[i].act # 0
               /\ CallOf(trace[i].act).closure = b.env)
              => ~trace[i].fatal /\ trace[i].value = b.instance

\* Two bindings of one method, the first stored in a variable, passed to a
\* function and stored in a field of another instance: each call answered with
\* the instance the method was read off.
C18_TwoBindingsKeepTheirThis ==
  /\ Only(BoundMethods)
  /\ pc = "done"
  /\ output = <<"ann", "bob", "ann", "ann", "ann">>
  /\ \E j, k \in BindEvents :
        /\ j < k
        /\ trace[j].method = trace[k].method
        /\ trace[j].instance # trace[k].instance
        /\ \E i \in Events : i > k /\ trace[i].ev = "call" /\ trace[i].closure = trace[j].env

Frames == 1 .. Len(frames)

(***************************************************************************)
(* C19: every statement restores the current-environment pointer.  After a *)
(* block, a function or method call, a constructor call or a class         *)
(* declaration (with or without a superclass) has ended, by normal         *)
(* completion or by a return signal, the current environment is the scope  *)
(* it was before; and between two top-level declarations it is the global  *)
(* scope.                                                                  *)
(***************************************************************************)
C19_EnvironmentRestored ==
  /\ \A k \in Frames : frames[k].after = frames[k].before
  /\ pc \in {"resolve", "interpret", "done"} => environment = globals

\* A function returned from inside nested blocks, and the run went on to its end:
\* blocks and a call that were left by the return signal.
C19_RestoredAfterReturn ==
  /\ Only(ReturnNested)
  /\ pc = "done"
  /\ \E k \in Frames : frames[k].kind = "block" /\ frames[k].flow = "Err"
                         /\ frames[k].before # globals
  /\ \E k \in Frames : frames[k].kind = "call" /\ frames[k].flow = "Err"

\* The method `name` of the nearest class on the chain of `class` that declares
\* it; the chain is known to declare it.
Nearest(class, name) ==
  LET D == Declaring(class, name)
  IN Ancestry(class)[CHOOSE d \in D : \A x \in D : d <= x].methods[name]

(***************************************************************************)
(* C20: method lookup on a class yields the definition of the nearest      *)
(* class on its superclass chain, the class itself first, and nothing only *)
(* when no class on the chain declares the name.  The lookups are those of *)
(* a property read that finds no field of that name (the method comes back *)
(* bound; with no method the read is fatal) and of super.m.                *)
(***************************************************************************)
C20_NearestMethodWins ==
  \A j \in Events :
     LET e == trace[j]
     IN /\ (e.ev = "get" /\ SetsBefore(j) = {}) =>
             IF Declaring(e.class, e.name) = {}
             THEN e.fatal /\ j = Len(trace) /\ err = "Undefined property"
             ELSE /\ ~e.fatal
                  /\ e.value.t = "Callable"
                  /\ e.value.decl = Nearest(e.class, e.name).decl
                  /\ envs[e.value.closure].parent = Nearest(e.class, e.name).closure
        /\ e.ev = "super" =>
             /\ Declaring(e.superclass, e.method) # {}
             /\ e.found = Nearest(e.superclass, e.method)

\* B < A both declare greet, only A declares only, C < B declares nothing: B's
\* greet and A's only were found on instances of B and of C, and a name no class
\* declares was not found.
C20_OverrideAndInherit ==
  /\ Only(MethodLookup)
  /\ pc = "runtime_error"
  /\ err = "Undefined property"
  /\ output = <<"B.greet", "A.only", "B.greet", "A.only", "A.greet">>

(***************************************************************************)
(* Reading the history of constructor calls.                               *)
(***************************************************************************)
Constructs == {k \in Events : trace[k].ev = "construct"}
\* The return of the constructor call that began at event k, if it returned.
ReturnedAt(k, e) ==
  e > k /\ trace[e].ev = "constructed" /\ trace[e].instance = trace[k].instance
Min(S) == CHOOSE x \in S : \A y \in S : x <= y
\* The field writes on the instance of event k between events k and e.
SetsWithin(k, e) ==
  {j \in k .. e : trace[j].ev = "set" /\ trace[j].instance = trace[k].instance}

(***************************************************************************)
(* C21: calling a class makes a new instance with an empty field table of  *)
(* its own.  If method lookup finds an init (own or inherited) it is bound *)
(* to the new instance and its body runs exactly once, with the            *)
(* constructor arguments as parameters, before the call returns.  The call *)
(* returns the new instance, whatever the body of init evaluates to, and   *)
(* the fields init wrote through `this` are on the returned instance.  The *)
(* class is called with as many arguments as the found init has            *)
(* parameters, with none if no init is found.                              *)
(***************************************************************************)
C21_ConstructorRunsInitOnce ==
  \A k \in Constructs :
     LET c == trace[k]
         class == c.value.class
         Binds == {j \in k + 1 .. Len(trace) : trace[j].ev = "bind"}
     IN /\ c.table = EmptyMap
        /\ c.instance = c.tables
        /\ \A j \in Constructs : j < k => trace[j].instance # c.instance
        /\ Len(c.arguments) = ExpectedArity(class)
        /\ IF Declaring(class, "init") = {}
           THEN k < Len(trace) /\ ReturnedAt(k, k + 1)
           ELSE /\ Binds # {}
                /\ trace[Min(Binds)].method = Nearest(class, "init")
                /\ trace[Min(Binds)].instance = c.value
                /\ \A j \in k + 1 .. Min(Binds) :
                      trace[j].ev \notin {"call", "construct", "constructed"}
                /\ \A e \in Events :
                      ReturnedAt(k, e) =>
                        \E j \in Min(Binds) + 1 .. e :
                           LET Calls == {i \in k .. e :
                                           /\ trace[i].ev = "call"
                                           /\ trace[i].closure = trace[Min(Binds)].env}
                               parameters == Nearest(class, "init").decl.parameters
                           IN /\ Calls = {j}
                              /\ trace[j].caller = c.act
                              /\ \A i \in 1 .. Len(parameters) :
                                    \E d \in j + 1 .. e :
                                       /\ trace[d].ev = "define"
                                       /\ trace[d].scope = trace[j].env
                                       /\ trace[d].name = parameters[i]
                                       /\ trace[d].value = c.arguments[i]
        /\ \A e \in Events :
              ReturnedAt(k, e) =>
                /\ trace[e].value = c.value
                /\ DOMAIN trace[e].table = {trace[j].name : j \in SetsWithin(k, e)}
                /\ \A j \in SetsWithin(k, e) :
                      (\A i \in SetsWithin(k, e) : trace[i].name = trace[j].name => i <= j)
                        => trace[e].table[trace[j].name] = trace[j].value

\* Point3(1, 2), Point3 < Point with init only in Point: the inherited init ran
\* once, made an Inner on the way, ended on the statement "ignored", and the call
\* returned the instance with x, inner and y set.
C21_InheritedInitConstructs ==
  /\ Only(Constructor)
  /\ pc = "done"
  /\ output = <<"2", "2", "inner", "6", "2">>
  /\ \E k \in Constructs, e \in Events :
        /\ ReturnedAt(k, e)
        /\ trace[k].value.class.name = "Point3"
        /\ DOMAIN trace[e].table = {"x", "inner", "y"}
        /\ \E j \in k .. e : trace[j].ev = "call_end" /\ trace[j].value = trace[k].value

(***************************************************************************)
(* Reading the history of the Resolver.                                    *)
(***************************************************************************)
\* The references of a program: <<id, kind, name>> of every variable read,
\* assignment, this and super in it.
RECURSIVE ReferencesIn(_), ReferencesInAll(_), ReferencesOfStmt(_), ReferencesOf(_)
ReferencesIn(e) ==
  CASE e.kind = "Var" -> {<<e.id, "Var", e.name>>}
    [] e.kind = "This" -> {<<e.id, "This", "this">>}
    [] e.kind = "Super" -> {<<e.id, "Super", "super">>}
    [] e.kind = "Assign" -> {<<e.id, "Assign", e.name>>} \cup ReferencesIn(e.expr)
    [] e.kind \in {"Binary", "Logical"} -> ReferencesIn(e.left) \cup ReferencesIn(e.right)
    [] e.kind = "Grouping" -> ReferencesIn(e.expr)
    [] e.kind = "Unary" -> ReferencesIn(e.right)
    [] e.kind = "Call" -> ReferencesIn(e.callee) \cup ReferencesInAll(e.args)
    [] e.kind = "Get" -> ReferencesIn(e.object)
    [] e.kind = "Set" -> ReferencesIn(e.object) \cup ReferencesIn(e.value)
    [] OTHER -> {}
ReferencesInAll(es) == UNION {ReferencesIn(es[i]) : i \in 1 .. Len(es)}
ReferencesOfStmt(stmt) ==
  CASE stmt.stmt \in {"Expr", "Print"} -> ReferencesIn(stmt.expr)
    [] stmt.stmt = "Return" -> ReferencesIn(stmt.value)
    [] stmt.stmt = "If" ->
         ReferencesIn(stmt.condition) \cup ReferencesOfStmt(stmt.then_branch)
         \cup UNION {ReferencesOfStmt(stmt.else_branch[i]) : i \in 1 .. Len(stmt.else_branch)}
    [] stmt.stmt = "While" -> ReferencesIn(stmt.condition) \cup ReferencesOfStmt(stmt.body)
    [] stmt.stmt = "Block" -> ReferencesOf(stmt.decls)
    [] stmt.stmt = "FunctionDecl" -> ReferencesOf(stmt.function_stmt.body)
    [] stmt.stmt = "ClassDecl" ->
         ReferencesInAll(stmt.superclass)
         \cup UNION {ReferencesOf(stmt.methods[i].body) : i \in 1 .. Len(stmt.methods)}
ReferencesOf(decls) ==
  UNION {IF decls[i].decl = "Var" THEN ReferencesIn(decls[i].expression)
         ELSE ReferencesOfStmt(decls[i].stmt) : i \in 1 .. Len(decls)}

Locals == {k \in 1 .. Len(rlog) : rlog[k].ev = "local"}
\* The scopes of the stack of event e, counted from the outermost, that hold its name.
Holding(e) == {i \in 1 .. Len(e.scopes) : e.name \in e.scopes[i]}
Accepted == pc \in {"interpret", "done", "runtime_error"}

(***************************************************************************)
(* C22: for every variable read, assignment target, this and super the     *)
(* Resolver scans the scope stack from the innermost scope outwards and    *)
(* records for the expression's id the distance of the first scope holding *)
(* the name: the number of scopes between it and the innermost one, 0 for  *)
(* the innermost.  The innermost of several scopes holding the name wins;  *)
(* when no scope holds it nothing is recorded for the id.                  *)
(***************************************************************************)
C22_DistanceOfInnermostScope ==
  /\ \A k \in Locals :
        LET e == rlog[k]
        IN /\ e.kind \in {"Var", "Assign", "This", "Super"}
           /\ e.after = IF Holding(e) = {} THEN e.before
                        ELSE <<Len(e.scopes) - Max(Holding(e))>>
           /\ (\A j \in Locals : j > k => rlog[j].id # e.id)
                => Entry(locals, e.id) = e.after
  /\ Accepted =>
        /\ \A r \in ReferencesOf(Program) :
              \E k \in Locals :
                 rlog[k].id = r[1] /\ rlog[k].kind = r[2] /\ rlog[k].name = r[3]
        /\ DOMAIN locals \subseteq {r[1] : r \in ReferencesOf(Program)}

\* A name held by two scopes of the stack was resolved to the inner one, which
\* was not the innermost scope.
C22_InnerOfTwoScopesWins ==
  \E k \in Locals :
     /\ Cardinality(Holding(rlog[k])) >= 2
     /\ Max(Holding(rlog[k])) < Len(rlog[k].scopes)
     /\ rlog[k].after = <<Len(rlog[k].scopes) - Max(Holding(rlog[k]))>>

\* The scope d parent links out from env; 0 when the chain has fewer links.
RECURSIVE LinksOut(_, _)
LinksOut(env, d) ==
  IF env = 0 \/ d = 0 THEN env ELSE LinksOut(envs[env].parent, d - 1)

\* Before event i some declaration defined `name` in `scope`.
DefinedBefore(i, scope, name) ==
  \E j \in 1 .. i - 1 :
     trace[j].ev = "define" /\ trace[j].scope = scope /\ trace[j].name = name

(***************************************************************************)
(* C23: the Resolver and the Interpreter agree on the structure of scopes. *)
(* Whenever a variable read, an assignment, a this or a super that the     *)
(* Resolver annotated with distance d is evaluated, the chain of the       *)
(* current environment has                                                 *)
(* at least d parent links and the scope exactly d links out defines the   *)
(* name (for super, the scope d - 1 links out defines this): the lookup at *)
(* the exact distance never finds the entry missing.                       *)
(***************************************************************************)
C23_DistancesMatchEnvironments ==
  /\ \A i \in Events :
        LET e == trace[i]
        IN /\ (e.ev = "read" /\ e.resolved) =>
                /\ e.distance = locals[e.id]
                /\ LinksOut(e.env, e.distance) # 0
                /\ LinksOut(e.env, e.distance) = e.scope
                /\ DefinedBefore(i, e.scope, e.name)
                /\ ~e.fatal
           /\ (e.ev = "assign" /\ e.resolved) =>
                /\ e.distance = locals[e.id]
                /\ LinksOut(e.env, e.distance) # 0
                /\ LinksOut(e.env, e.distance) = e.target
                /\ DefinedBefore(i, e.target, e.name)
           /\ e.ev = "super" =>
                /\ e.id \in DOMAIN locals
                /\ locals[e.id] >= 1
                /\ LinksOut(e.env, locals[e.id]) # 0
                /\ DefinedBefore(i, LinksOut(e.env, locals[e.id]), "super")
                /\ DefinedBefore(i, LinksOut(e.env, locals[e.id] - 1), "this")
                /\ envs[LinksOut(e.env, locals[e.id])].values["super"] = e.superclass
                /\ envs[LinksOut(e.env, locals[e.id] - 1)].values["this"] = e.this
  /\ err \notin {"called Option::unwrap() on a None value",
                 "could not find name in scope for distance",
                 "attempt to subtract with overflow",
                 "bug: environment.get(super) did not return a class",
                 "bug: environment.get(this) did not return a class instance"}

\* In a method of a subclass, called on an instance, super was found two scopes
\* out and this one scope out of the body.
C23_SuperAndThisFound ==
  /\ \E i \in Events : trace[i].ev = "super" /\ locals[trace[i].id] = 2
  /\ \E i \in Events :
        /\ trace[i].ev = "read" /\ trace[i].name = "this"
        /\ trace[i].resolved /\ trace[i].distance = 1 /\ ~trace[i].fatal

(***************************************************************************)
(* Reading one operation of Environment.                                   *)
(***************************************************************************)
\* The scopes on the parent chain of scope env in arena, env itself first.
RECURSIVE ChainOf(_, _)
ChainOf(arena, env) ==
  IF env = 0 THEN <<>> ELSE <<env>> \o ChainOf(arena, arena[env].parent)

\* The places on the chain whose scope defines the name.
Defining(arena, env, name) ==
  {k \in 1 .. Len(ChainOf(arena, env)) :
     name \in DOMAIN arena[ChainOf(arena, env)[k]].values}

\* Arena `after` is arena `before` with `name` bound to `value` in `scope`, and
\* nothing else changed.
OnlyBound(before, after, scope, name, value) ==
  /\ Len(after) = Len(before)
  /\ \A i \in 1 .. Len(before) : i # scope => after[i] = before[i]
  /\ after[scope].parent = before[scope].parent
  /\ DOMAIN after[scope].values = DOMAIN before[scope].values \cup {name}
  /\ after[scope].values[name] = value
  /\ \A m \in DOMAIN before[scope].values :
        m # name => after[scope].values[m] = before[scope].values[m]

(***************************************************************************)
(* C24: an Environment operation touches one scope only.  define inserts   *)
(* or overwrites the name in the receiver scope and leaves every other     *)
(* scope, its ancestors included, as it was.  get answers with the value   *)
(* of the nearest scope on the parent chain that defines the name and      *)
(* changes nothing.  mutate overwrites the binding in the nearest scope    *)
(* that defines the name and leaves every other scope as it was.  When no  *)
(* scope on the chain defines the name, get and mutate answer not found    *)
(* and no scope is changed.                                                *)
(***************************************************************************)
C24_EnvironmentOperations ==
  pc = "applied" =>
    LET e == trace[1]
        chain == ChainOf(e.before, e.env)
        D == Defining(e.before, e.env, e.name)
        nearest == chain[Min(D)]
    IN /\ envs = e.after
       /\ CASE e.ev = "define" ->
                 OnlyBound(e.before, e.after, e.env, e.name, e.value)
            [] e.ev = "get" ->
                 /\ e.after = e.before
                 /\ e.result = IF D = {} THEN <<>>
                               ELSE <<e.before[nearest].values[e.name]>>
            [] e.ev = "mutate" ->
                 IF D = {} THEN e.after = e.before /\ e.result = <<>>
                 ELSE /\ OnlyBound(e.before, e.after, nearest, e.name, e.value)
                      /\ e.result # <<>>

\* mutate on a scope that does not define the name, whose parent does not
\* either and whose grandparent does: the grandparent's binding was overwritten.
C24_MutateReachesGrandparent ==
  /\ pc = "applied"
  /\ trace[1].ev = "mutate"
  /\ Defining(trace[1].before, trace[1].env, trace[1].name) = {3}
  /\ envs[ChainOf(trace[1].before, trace[1].env)[3]].values[trace[1].name] = String("new")

(***************************************************************************)
(* Reading the program text: where its return statements, this, super and  *)
(* superclass clauses stand.  The path of a use names the declarations     *)
(* around it from the outermost inwards: "fun" for a function declaration, *)
(* "init" and "method" for the methods of a class, "class" and "subclass"  *)
(* for a class declaration without and with a superclass.                  *)
(***************************************************************************)
Use(id, what, path, class, superclass) ==
  [id |-> id, what |-> what, path |-> path, class |-> class, superclass |-> superclass]
RECURSIVE UsesIn(_, _), UsesInAll(_, _), UsesOfStmt(_, _), UsesOf(_, _)
UsesIn(e, path) ==
  CASE e.kind = "This" -> {Use(e.id, "this", path, "", "")}
    [] e.kind = "Super" -> {Use(e.id, "super", path, "", "")}
    [] e.kind = "Assign" -> UsesIn(e.expr, path)
    [] e.kind \in {"Binary", "Logical"} -> UsesIn(e.left, path) \cup UsesIn(e.right, path)
    [] e.kind = "Grouping" -> UsesIn(e.expr, path)
    [] e.kind = "Unary" -> UsesIn(e.right, path)
    [] e.kind = "Call" -> UsesIn(e.callee, path) \cup UsesInAll(e.args, path)
    [] e.kind = "Get" -> UsesIn(e.object, path)
    [] e.kind = "Set" -> UsesIn(e.object, path) \cup UsesIn(e.value, path)
    [] OTHER -> {}
UsesInAll(es, path) == UNION {UsesIn(es[i], path) : i \in 1 .. Len(es)}
UsesOfStmt(stmt, path) ==
  CASE stmt.stmt \in {"Expr", "Print"} -> UsesIn(stmt.expr, path)
    [] stmt.stmt = "Return" ->
         {Use(stmt.value.id, "return", path, "", "")} \cup UsesIn(stmt.value, path)
    [] stmt.stmt = "If" ->
         UsesIn(stmt.condition, path) \cup UsesOfStmt(stmt.then_branch, path)
         \cup UNION {UsesOfStmt(stmt.else_branch[i], path) : i \in 1 .. Len(stmt.else_branch)}
    [] stmt.stmt = "While" -> UsesIn(stmt.condition, path) \cup UsesOfStmt(stmt.body, path)
    [] stmt.stmt = "Block" -> UsesOf(stmt.decls, path)
    [] stmt.stmt = "FunctionDecl" -> UsesOf(stmt.function_stmt.body, Append(path, "fun"))
    [] stmt.stmt = "ClassDecl" ->
         {Use(stmt.superclass[i].id, "inherit", path, stmt.name, stmt.superclass[i].name) :
            i \in 1 .. Len(stmt.superclass)}
         \cup UNION {UsesOf(stmt.methods[i].body,
                            path \o <<IF Len(stmt.superclass) > 0 THEN "subclass" ELSE "class",
                                      IF stmt.methods[i].identifier = "init" THEN "init"
                                      ELSE "method">>) :
                      i \in 1 .. Len(stmt.methods)}
UsesOf(decls, path) ==
  UNION {IF decls[i].decl = "Var" THEN UsesIn(decls[i].expression, path)
         ELSE UsesOfStmt(decls[i].stmt, path) : i \in 1 .. Len(decls)}
Uses == UsesOf(Program, <<>>)

\* The innermost declaration of the path that is of one of the kinds.
InnermostOf(path, kinds) ==
  LET S == {i \in 1 .. Len(path) : path[i] \in kinds}
  IN IF S = {} THEN "none" ELSE path[Max(S)]
InnermostFunction(u) == InnermostOf(u.path, {"fun", "init", "method"})
InnermostClass(u) == InnermostOf(u.path, {"class", "subclass"})
\* What the context of a use says about it.
Rejected(u) ==
  CASE u.what = "return" -> InnermostFunction(u) \in {"none", "init"}
    [] u.what = "this" -> InnermostClass(u) = "none"
    [] u.what = "super" -> InnermostClass(u) # "subclass"
    [] u.what = "inherit" -> u.class = u.superclass
Checks == {k \in 1 .. Len(rlog) : rlog[k].ev \in {"check", "inherit"}}
What(e) == IF e.ev = "inherit" THEN "inherit" ELSE e.what
\* The uses of the program text that event e of the pass is about.
UsesAt(e) ==
  {u \in Uses : /\ u.what = What(e)
                /\ IF e.ev = "inherit" THEN u.class = e.name /\ u.superclass = e.superclass
                   ELSE u.id = e.id}

(***************************************************************************)
(* C25: the context checks of the Resolver judge a use by the innermost    *)
(* function and class declaration around it: a return is rejected exactly  *)
(* when no function is around it or the innermost one is an initializer    *)
(* (a return in a plain function nested in an initializer passes), this    *)
(* exactly when no class is around it, super exactly when the innermost    *)
(* class around it has no superclass, and a class naming itself as its     *)
(* superclass is rejected.  A rejection ends the pass with the message of  *)
(* the check; an accepted program holds no rejected use, and every use of  *)
(* it was checked, also those that follow a nested function or class       *)
(* declaration.                                                            *)
(***************************************************************************)
C25_ContextChecks ==
  /\ \A k \in Checks :
        LET e == rlog[k]
        IN /\ UsesAt(e) # {}
           /\ \A u \in UsesAt(e) : (e.err # "") <=> Rejected(u)
           /\ e.err # "" => k = Len(rlog) /\ pc = "static_error" /\ err = e.err
  /\ Accepted =>
        \A u \in Uses : ~Rejected(u) /\ \E k \in Checks : u \in UsesAt(rlog[k])

\* An accepted program in which a return stands in a plain function inside an
\* initializer, and a super checked after a nested class without superclass
\* ended was judged by the subclass around it.
C25_JudgedByInnermost ==
  /\ pc = "done"
  /\ \E u \in Uses :
        u.what = "return" /\ InnermostFunction(u) = "fun" /\ \E i \in 1 .. Len(u.path) : u.path[i] = "init"
  /\ \E j, k \in Checks :
        /\ j < k
        /\ rlog[j].ev = "check" /\ rlog[j].what = "this" /\ rlog[j].class = "Class"
        /\ rlog[k].ev = "check" /\ rlog[k].what = "super" /\ rlog[k].class = "SubClass"
        /\ rlog[k].function = "Initializer"

(***************************************************************************)
(* Reading the program text: its variable declarations.  A declaration is  *)
(* local when it stands in a block, a function body or a method body.      *)
(***************************************************************************)
Declaration(name, local, own) == [name |-> name, local |-> local, own |-> own]
RECURSIVE VarsOfStmt(_), VarsOf(_, _)
VarsOfStmt(stmt) ==
  CASE stmt.stmt = "If" ->
         VarsOfStmt(stmt.then_branch)
         \cup UNION {VarsOfStmt(stmt.else_branch[i]) : i \in 1 .. Len(stmt.else_branch)}
    [] stmt.stmt = "While" -> VarsOfStmt(stmt.body)
    [] stmt.stmt = "Block" -> VarsOf(stmt.decls, TRUE)
    [] stmt.stmt = "FunctionDecl" -> VarsOf(stmt.function_stmt.body, TRUE)
    [] stmt.stmt = "ClassDecl" ->
         UNION {VarsOf(stmt.methods[i].body, TRUE) : i \in 1 .. Len(stmt.methods)}
    [] OTHER -> {}
\* own: the initializer of the declaration reads the name it declares.
VarsOf(decls, local) ==
  UNION {IF decls[i].decl = "Var"
         THEN {Declaration(decls[i].identifier, local,
                           \E r \in ReferencesIn(decls[i].expression) :
                              r[2] = "Var" /\ r[3] = decls[i].identifier)}
         ELSE VarsOfStmt(decls[i].stmt) : i \in 1 .. Len(decls)}
Vars == VarsOf(Program, FALSE)

Declares == {k \in 1 .. Len(rlog) : rlog[k].ev = "declare"}
Defines == {k \in 1 .. Len(rlog) : rlog[k].ev = "define"}
Reads == {k \in 1 .. Len(rlog) : rlog[k].ev = "read"}
\* The scope stack `after` is `before` with name marked in its innermost scope.
Marked(before, after, name, mark) ==
  /\ Len(after) = Len(before)
  /\ \A i \in 1 .. Len(before) - 1 : after[i] = before[i]
  /\ DOMAIN Last(after) = DOMAIN Last(before) \cup {name}
  /\ \A m \in DOMAIN Last(after) :
        Last(after)[m] = IF m = name THEN mark ELSE Last(before)[m]
\* The name is marked not yet defined in the innermost scope of the stack.
NotYetDefined(stack, name) ==
  /\ Len(stack) > 0
  /\ name \in DOMAIN Last(stack)
  /\ Last(stack)[name] = FALSE
OwnInitializerFault == "can't read local var in its own initializer"

(***************************************************************************)
(* C26: declaring a variable takes two steps in the Resolver.  declare     *)
(* marks the name not yet defined in the innermost scope, define marks it  *)
(* defined there, and neither touches another scope; on an empty stack     *)
(* both do nothing.  A read of a name is a static error exactly when the   *)
(* name is marked not yet defined in the innermost scope, which is the     *)
(* case exactly in the initializer of a local declaration of that name:    *)
(* a program with a local variable whose initializer reads its own name is *)
(* rejected, and a global variable whose initializer reads its own name is *)
(* no static error.                                                        *)
(***************************************************************************)
C26_TwoPhaseDeclaration ==
  /\ \A k \in Declares :
        LET e == rlog[k]
        IN IF Len(e.before) = 0 THEN e.after = <<>> /\ e.err = ""
           ELSE e.err = "" => Marked(e.before, e.after, e.name, FALSE)
  /\ \A k \in Defines :
        LET e == rlog[k]
        IN IF Len(e.before) = 0 THEN e.after = <<>>
           ELSE Marked(e.before, e.after, e.name, TRUE)
  /\ \A k \in Reads :
        LET e == rlog[k]
        IN /\ (e.err # "") <=> NotYetDefined(e.scopes, e.name)
           /\ e.err # "" =>
                /\ e.err = OwnInitializerFault /\ err = e.err
                /\ pc = "static_error" /\ k = Len(rlog)
                /\ \E j \in Declares :
                      /\ j < k /\ rlog[j].name = e.name /\ rlog[j].after = e.scopes
                      /\ \A i \in j + 1 .. k - 1 : rlog[i].ev \notin {"declare", "define"}
                /\ \E v \in Vars : v.local /\ v.own /\ v.name = e.name
  /\ Accepted => \A v \in Vars : v.own => ~v.local
  /\ err = OwnInitializerFault => \E v \in Vars : v.local /\ v.own

\* { var a = 1; { var a = a; } }: the read stands in two scopes, the outer one
\* holding the name defined and the innermost one holding it not yet defined,
\* and is rejected.
C26_InnerInitializerReadsOuterName ==
  /\ pc = "static_error"
  /\ err = OwnInitializerFault
  /\ rlog[Len(rlog)].ev = "read"
  /\ Len(rlog[Len(rlog)].scopes) = 2
  /\ rlog[Len(rlog)].name \in DOMAIN rlog[Len(rlog)].scopes[1]
  /\ rlog[Len(rlog)].scopes[1][rlog[Len(rlog)].name] = TRUE
  /\ rlog[Len(rlog)].scopes[2][rlog[Len(rlog)].name] = FALSE

(***************************************************************************)
(* Reading the history: the field tables of the instances.                 *)
(***************************************************************************)
\* The events that make or change a field table, and the tables after them.
TableEvents == {k \in Events : trace[k].ev \in {"set", "construct"}}
\* The field tables as the last table event before event k left them.
TablesBefore(k) ==
  LET S == {j \in TableEvents : j < k}
  IN IF S = {} THEN <<>> ELSE trace[Max(S)].after
\* Tables `after` are `before` with name set to value in one table.
OnlyWritten(before, after, table, name, value) ==
  /\ Len(after) = Len(before)
  /\ table \in 1 .. Len(before)
  /\ \A i \in 1 .. Len(before) : i # table => after[i] = before[i]
  /\ DOMAIN after[table] = DOMAIN before[table] \cup {name}
  /\ \A m \in DOMAIN after[table] :
        after[table][m] = IF m = name THEN value ELSE before[table][m]

(***************************************************************************)
(* C27: instances are references.  A field write, through whatever         *)
(* expression the instance was reached (a variable, a parameter, this, the *)
(* result of a call), changes the one field of the table of that instance  *)
(* and no other table; the tables every later property read and write      *)
(* finds are exactly those the last write or constructor call left, so a   *)
(* read of a written field through any other reference yields the value    *)
(* written; and each constructor call adds an empty table of its own to    *)
(* the tables there were.                                                  *)
(***************************************************************************)
C27_InstancesAreReferences ==
  /\ \A k \in Events :
        LET e == trace[k]
        IN /\ e.ev = "set" =>
                /\ e.before = TablesBefore(k)
                /\ OnlyWritten(e.before, e.after, e.instance, e.name, e.value)
           /\ e.ev = "get" =>
                /\ e.tables = TablesBefore(k)
                /\ e.instance \in 1 .. Len(e.tables)
                /\ e.name \in DOMAIN e.tables[e.instance] =>
                      ~e.fatal /\ e.value = e.tables[e.instance][e.name]
           /\ e.ev = "construct" =>
                /\ e.after = Append(TablesBefore(k), EmptyMap)
                /\ e.instance = Len(e.after)
                /\ e.value.fields = e.instance
                /\ \A j \in Constructs : j < k => trace[j].instance # e.instance
  /\ Ended => fields = TablesBefore(Len(trace) + 1)

\* Writes to instances through a variable, a parameter, this and the result of
\* a constructor call, read back through other references, while a second
\* instance of the class keeps its own field.
C27_WritesSeenThroughAliases ==
  /\ pc = "done"
  /\ output = <<"5", "10", "11", "7", "0">>
  /\ \E i, j, k \in Events :
        /\ trace[i].ev = "set" /\ trace[i].via = "Var"
        /\ trace[j].ev = "set" /\ trace[j].via = "This"
        /\ trace[k].ev = "set" /\ trace[k].via = "Call"
        /\ \E g \in Events :
              /\ g > k /\ trace[g].ev = "get" /\ trace[g].via = "Get"
              /\ trace[g].instance = trace[k].instance /\ trace[g].name = trace[k].name
              /\ trace[g].value = trace[k].value

(***************************************************************************)
(* Reading the history: the calls of user functions that came back.        *)
(***************************************************************************)
Calls == {k \in Events : trace[k].ev = "call"}
\* The end of the call that began at event k.
EndOf(k) == {e \in Events : e > k /\ trace[e].ev = "call_end" /\ trace[e].act = trace[k].act}
\* The kind of the last declaration of a body, "" for an empty body.
LastOf(body) ==
  IF Len(body) = 0 THEN ""
  ELSE IF Last(body).decl = "Var" THEN "Var"
  ELSE Last(body).stmt.stmt
\* The values of the expression statements of activation a before event e.
ExprsOf(a, e) == {j \in 1 .. e - 1 : trace[j].ev = "expr" /\ trace[j].act = a}
\* The instance the closure was bound to.
BoundThis(closure) ==
  {trace[j].instance : j \in {i \in Events : trace[i].ev = "bind" /\ trace[i].env = closure}}

(***************************************************************************)
(* C28: a call of a user function whose body completes without executing   *)
(* a return yields the value of the last declaration of the body: Null for *)
(* an empty body and for a last declaration that is a var declaration, a   *)
(* print, a while, a function or a class declaration, and the value of the *)
(* expression for a last declaration that is an expression statement       *)
(* (fun f() { 1 + 2; } makes f() yield 3).  A function flagged as          *)
(* initializer yields the instance its closure binds as this instead.      *)
(***************************************************************************)
C28_ResultWithoutReturn ==
  \A k \in Calls : \A e \in EndOf(k) :
     ~trace[e].returned =>
        IF trace[k].is_initializer
        THEN BoundThis(trace[k].closure) = {trace[e].value}
        ELSE CASE LastOf(trace[k].body)
                    \in {"", "Var", "Print", "While", "FunctionDecl", "ClassDecl"} ->
                    trace[e].value = Null
               [] LastOf(trace[k].body) = "Expr" ->
                    /\ ExprsOf(trace[k].act, e) # {}
                    /\ trace[e].value = trace[Max(ExprsOf(trace[k].act, e))].value
               [] OTHER -> TRUE

\* fun expr() { 1 + 2; } yielded 3, the functions ending in another kind of
\* declaration yielded Null, and init called on an instance yielded the instance.
C28_ExpressionStatementYieldsItsValue ==
  /\ pc = "done"
  /\ output = <<"3", "null", "null", "p", "null", "null", "null", "null", "4">>
  /\ \E k \in Calls : \E e \in EndOf(k) :
        /\ ~trace[e].returned /\ ~trace[k].is_initializer
        /\ LastOf(trace[k].body) = "Expr" /\ trace[e].value = Number(3)
  /\ \A kind \in {"", "Var", "Print", "While", "FunctionDecl", "ClassDecl"} :
        \E k \in Calls : EndOf(k) # {} /\ LastOf(trace[k].body) = kind

UnaryEvents == {k \in Events : trace[k].ev = "unary"}

(***************************************************************************)
(* C29: unary minus on a Number yields its negation, and on any other      *)
(* value it is a fatal error.  Every other unary operator the parser       *)
(* produces, that is !, is a fatal error for every operand, a Boolean      *)
(* included, and nothing is printed.                                       *)
(***************************************************************************)
C29_UnaryOperators ==
  /\ \A k \in UnaryEvents :
        /\ trace[k].op = "Minus"
        /\ trace[k].right.t = "Number" /\ trace[k].value.t = "Number"
        /\ num_add(trace[k].value, trace[k].right) = Number(0)
  /\ (case.kind = "unary" /\ Ended) =>
        IF case.op = "Minus" /\ OperandTag(case.left) = "Number"
        THEN /\ pc = "done"
             /\ trace[Max(UnaryEvents)].right = Number(case.left.n)
             /\ trace[Max(UnaryEvents)].value = Number(-case.left.n)
             /\ case.left.n # 0 => output = <<ToString(-case.left.n)>>
        ELSE /\ pc = "runtime_error"
             /\ output = <<>>
             /\ err = IF case.op = "Minus" THEN "invalid "
                      ELSE "unexpected token. Expecting '-'"

\* print !true; stopped the run.
C29_NotOfBooleanIsFatal ==
  /\ case = [kind |-> "unary", op |-> "Bang", left |-> Operand("true", 0, ""),
              right |-> NoOperand]
  /\ pc = "runtime_error"
  /\ err = "unexpected token. Expecting '-'"

Stmts == {k \in 1 .. Len(rlog) : rlog[k].ev = "stmt"}

(***************************************************************************)
(* C30: the state of the Resolver is balanced.  Every declaration and      *)
(* statement the pass accepts leaves the depth of the scope stack, the     *)
(* current function kind and the current class kind as they were before    *)
(* it; end_scope is never called on an empty stack; between the top-level  *)
(* declarations, and when the pass over an accepted program has ended, the *)
(* scope stack is empty and both kinds are none.                           *)
(***************************************************************************)
C30_ResolverIsBalanced ==
  /\ \A k \in Stmts : rlog[k].after = rlog[k].before
  /\ err # "stack is empty!"
  /\ pc # "static_error" =>
        scopes = <<>> /\ current_function = "None" /\ current_class = "None"

\* An accepted program with a class declared inside an initializer of a
\* subclass, two scopes deep or more: the declaration left the depth and both
\* kinds as they were, and so did a block and a function declaration.
C30_NestedDeclarationsBalanced ==
  /\ pc = "done"
  /\ scopes = <<>>
  /\ \E k \in Stmts :
        /\ rlog[k].kind = "ClassDecl"
        /\ rlog[k].before.depth >= 2
        /\ rlog[k].before.function = "Initializer"
        /\ rlog[k].before.class = "SubClass"
        /\ rlog[k].after = rlog[k].before
  /\ \E k \in Stmts :
        rlog[k].kind = "FunctionDecl" /\ rlog[k].before.function = "Initializer"
  /\ \E k \in Stmts : rlog[k].kind = "Block" /\ rlog[k].before.depth >= 1

====
